---- MODULE Spec2Model ----
(***************************************************************************)
(* Model of the diff-edit engine (src/vault/diff-edit.ts), the rollback    *)
(* store (src/utils/helpers.ts), the file-writing tool handlers, the       *)
(* bearer-token middleware, the ServerManager (start, stop, restart and    *)
(* the session routes) and the fuzzy-anchor diff-edit of the Obsidian MCP  *)
(* plugin.                                                                 *)
(*                                                                         *)
(* Strings are sequences of one-character strings, so that indexOf, slice, *)
(* split and the regular expressions of the code are computed, not assumed.*)
(***************************************************************************)
EXTENDS Integers, Sequences, FiniteSets, TLC

----------------------------------------------------------------------------
(* Characters and string primitives (JavaScript String methods)            *)

LF == "\n"
CR == "\r"

\* JavaScript \s restricted to the characters of the model's alphabet
IsSpace(c) == c \in {" ", "\t", LF, CR}

Min(a, b) == IF a < b THEN a ELSE b

\* s.slice(from) with a 0-based offset
SliceFrom(s, from) == SubSeq(s, from + 1, Len(s))

\* s.slice(0, to) with a 0-based exclusive end
SliceTo(s, to) == SubSeq(s, 1, to)

\* s.startsWith(p)
StartsWith(s, p) == Len(s) >= Len(p) /\ SubSeq(s, 1, Len(p)) = p

\* s.endsWith(p)
EndsWith(s, p) == Len(s) >= Len(p) /\ SubSeq(s, Len(s) - Len(p) + 1, Len(s)) = p

\* does sub occur in s at 0-based offset i
MatchAt(s, sub, i) == i >= 0 /\ i + Len(sub) <= Len(s) /\ SubSeq(s, i + 1, i + Len(sub)) = sub

RECURSIVE IndexFrom(_, _, _)
IndexFrom(s, sub, i) ==
  IF i + Len(sub) > Len(s) THEN -1
  ELSE IF MatchAt(s, sub, i) THEN i
  ELSE IndexFrom(s, sub, i + 1)

\* s.indexOf(sub): 0-based offset of the leftmost occurrence, -1 when absent
IndexOf(s, sub) == IndexFrom(s, sub, 0)

\* s.trim() === ""
TrimIsEmpty(s) == \A i \in 1..Len(s) : IsSpace(s[i])

RECURSIVE Join(_, _)
\* lines.join(sep)
Join(lines, sep) ==
  IF Len(lines) = 0 THEN <<>>
  ELSE IF Len(lines) = 1 THEN lines[1]
  ELSE lines[1] \o sep \o Join(Tail(lines), sep)

\* the positions of s, in order
Indices(s) == [i \in 1..Len(s) |-> i]

\* s.split(/\r?\n/): the separators are the line feeds, each with the CR before it
SplitLines(s) ==
  LET lfs == SelectSeq(Indices(s), LAMBDA i : s[i] = LF)
      n == Len(lfs)
      start(k) == IF k = 1 THEN 1 ELSE lfs[k - 1] + 1
      stop(k) == IF k = n + 1 THEN Len(s)
                 ELSE IF lfs[k] > start(k) /\ s[lfs[k] - 1] = CR THEN lfs[k] - 2
                 ELSE lfs[k] - 1
  IN [k \in 1..(n + 1) |-> SubSeq(s, start(k), stop(k))]

\* s.replace(/\r\n/g, "\n"): every CR that a line feed follows is dropped
NormalizeNewlines(s) ==
  LET kept == SelectSeq(Indices(s), LAMBDA i : ~(s[i] = CR /\ i < Len(s) /\ s[i + 1] = LF))
  IN [k \in 1..Len(kept) |-> s[kept[k]]]

RECURSIVE SkipSpace(_, _)
\* first 1-based position at or after i that does not hold a whitespace character
SkipSpace(s, i) == IF i <= Len(s) /\ IsSpace(s[i]) THEN SkipSpace(s, i + 1) ELSE i

\* the backquote character (a backquote inside a string literal is not lexed)
BQ == "U+0060"
FenceOpen == <<BQ, BQ, BQ, "d", "i", "f", "f">>
FenceClose == <<BQ, BQ, BQ>>

\* multiline anchors: ^ holds at 1-based position i, $ holds before position i
AtLineStart(s, i) == i = 1 \/ s[i - 1] \in {LF, CR}
AtLineEnd(s, i) == i > Len(s) \/ s[i] \in {LF, CR}

\* udiff.replace(/^BQBQBQdiff\s*|BQBQBQ$/gm, "") where BQ is the backquote: the opening
\* fences at a line start with the whitespace after them, and the closing fences at a
\* line end, are removed (two matches never overlap)
StripFences(udiff) ==
  LET opens == {j \in 1..Len(udiff) : AtLineStart(udiff, j) /\ MatchAt(udiff, FenceOpen, j - 1)}
      closes == {j \in 1..Len(udiff) :
                   MatchAt(udiff, FenceClose, j - 1) /\ AtLineEnd(udiff, j + Len(FenceClose))}
      removed == UNION ({j..(SkipSpace(udiff, j + Len(FenceOpen)) - 1) : j \in opens}
                          \cup {j..(j + Len(FenceClose) - 1) : j \in closes})
      kept == SelectSeq(Indices(udiff), LAMBDA i : i \notin removed)
  IN [k \in 1..Len(kept) |-> udiff[kept[k]]]

----------------------------------------------------------------------------
(* applyDiff (src/vault/diff-edit.ts)                                      *)

DASH3 == <<"-", "-", "-">>
PLUS3 == <<"+", "+", "+">>
AT2 == <<"@", "@">>

\* the header test of step 2: diffLines[0].startsWith("---") and /^\+\+\+\s/ on diffLines[1]
\* (a missing diffLines[1] is tested as the text "undefined" and does not match)
HeadersPresent(diffLines) ==
  /\ StartsWith(diffLines[1], DASH3)
  /\ Len(diffLines) >= 2
  /\ StartsWith(diffLines[2], PLUS3)
  /\ Len(diffLines[2]) >= 4
  /\ IsSpace(diffLines[2][4])

\* line.replace(/^---\s*/, "") and line.replace(/^\+\+\+\s*/, ""): drop the marker and the blanks after it
HeaderPath(line) == SubSeq(line, SkipSpace(line, 4), Len(line))

RECURSIVE stripPrefixAll(_)
stripPrefixAll(p) ==
  IF Len(p) >= 2 /\ p[1] \in {"a", "b"} /\ p[2] = "/" THEN stripPrefixAll(SubSeq(p, 3, Len(p)))
  ELSE p

RECURSIVE stripPrefixChars(_)
\* variant: a character class instead of the group, p.replace(/^[ab\/]*/, "")
stripPrefixChars(p) ==
  IF Len(p) >= 1 /\ p[1] \in {"a", "b", "/"} THEN stripPrefixChars(Tail(p)) ELSE p

\* p.replace(/^([ab]\/)*/, ""): every leading a/ or b/ is removed
stripPrefix(p) == stripPrefixAll(p)

\* /^@@.*@@/
IsHunkHeader(line) ==
  /\ StartsWith(line, AT2)
  /\ \E j \in 3..(Len(line) - 1) :
       /\ line[j] = "@" /\ line[j + 1] = "@"
       /\ \A k \in 3..(j - 1) : line[k] \notin {LF, CR}

RECURSIVE HunkEnd(_, _)
\* first 1-based index at or after cursor whose line matches /^@@/ or /^---/, or Len+1
HunkEnd(diffLines, cursor) ==
  IF cursor > Len(diffLines) THEN cursor
  ELSE IF StartsWith(diffLines[cursor], AT2) \/ StartsWith(diffLines[cursor], DASH3) THEN cursor
  ELSE HunkEnd(diffLines, cursor + 1)

RECURSIVE SelectLines(_, _)
\* the texts (h.slice(1)) of the hunk lines whose first character is in kinds, in order;
\* empty lines and lines with another first character are skipped
SelectLines(hunkLines, kinds) ==
  IF Len(hunkLines) = 0 THEN <<>>
  ELSE LET h == Head(hunkLines)
           rest == SelectLines(Tail(hunkLines), kinds)
       IN IF Len(h) > 0 /\ h[1] \in kinds THEN <<Tail(h)>> \o rest ELSE rest

\* "preserve trailing newline if needed"
KeepsTrailingNewline(hunkLines) ==
  Len(hunkLines) > 0 /\ hunkLines[Len(hunkLines)] \in {<<>>, <<" ">>}

searchBlockOf(hunkLines) ==
  Join(SelectLines(hunkLines, {" ", "-"}), <<LF>>)
    \o (IF KeepsTrailingNewline(hunkLines) THEN <<LF>> ELSE <<>>)

\* variant: the replace block is built from the added lines only
replaceBlockAddedOnly(hunkLines) ==
  Join(SelectLines(hunkLines, {"+"}), <<LF>>)
    \o (IF KeepsTrailingNewline(hunkLines) THEN <<LF>> ELSE <<>>)

replaceBlockOf(hunkLines) ==
  Join(SelectLines(hunkLines, {" ", "+"}), <<LF>>)
    \o (IF KeepsTrailingNewline(hunkLines) THEN <<LF>> ELSE <<>>)

\* variant: updated.lastIndexOf(searchBlock)
LocateLast(updated, searchBlock) ==
  LET found == {i \in 0..Len(updated) : MatchAt(updated, searchBlock, i)}
  IN IF found = {} THEN -1 ELSE CHOOSE i \in found : \A j \in found : j <= i

\* updated.indexOf(searchBlock): where a hunk's search block is looked for
Locate(updated, searchBlock) == IndexOf(updated, searchBlock)

\* variant: the rest of the buffer is taken after the length of the replace block
SpliceKeepLength(updated, idx, searchBlock, replaceBlock) ==
  SliceTo(updated, idx) \o replaceBlock \o SliceFrom(updated, idx + Len(replaceBlock))

\* variant: the buffer ends with the replace block
SpliceDropTail(updated, idx, searchBlock, replaceBlock) == SliceTo(updated, idx) \o replaceBlock

\* updated.slice(0, idx) + replaceBlock + updated.slice(idx + searchBlock.length)
Splice(updated, idx, searchBlock, replaceBlock) ==
  SliceTo(updated, idx) \o replaceBlock \o SliceFrom(updated, idx + Len(searchBlock))

RECURSIVE ApplyHunks(_, _, _, _)
\* step 3, the while loop: cursor is the 1-based index of the next diff line,
\* hunks records for every hunk reached its offset and blocks (idx = -1: not found)
ApplyHunks(diffLines, cursor, updated, hunks) ==
  IF cursor > Len(diffLines) THEN [err |-> "none", updated |-> updated, hunks |-> hunks]
  ELSE LET header == diffLines[cursor] IN
    IF ~IsHunkHeader(header)
    THEN IF TrimIsEmpty(header) THEN ApplyHunks(diffLines, cursor + 1, updated, hunks)
         ELSE [err |-> "hunkheader", updated |-> updated, hunks |-> hunks]
    ELSE LET end == HunkEnd(diffLines, cursor + 1)
             hunkLines == SubSeq(diffLines, cursor + 1, end - 1)
             searchBlock == searchBlockOf(hunkLines)
             replaceBlock == replaceBlockOf(hunkLines)
             idx == Locate(updated, searchBlock)
             hunk == [idx |-> idx, searchBlock |-> searchBlock, replaceBlock |-> replaceBlock]
         IN IF idx < 0
            THEN [err |-> "hunkapply", updated |-> updated, hunks |-> Append(hunks, hunk)]
            ELSE ApplyHunks(diffLines, end, Splice(updated, idx, searchBlock, replaceBlock),
                            Append(hunks, hunk))

----------------------------------------------------------------------------
(* createPatch of the "diff" package, as called in step 4.  The package is  *)
(* a dependency (package.json: "diff": "^7.0.0") and not part of the        *)
(* repository; its output format is: an "Index:" line, a line of 67 "=",    *)
(* the "--- "/"+++ " file lines, then one "@@ -s,n +s,m @@" header per hunk *)
(* followed by the hunk lines, every line ended by a line feed.  The hunk   *)
(* is computed here from the common leading and trailing lines with the     *)
(* package's four lines of context; the package's "\ No newline at end of   *)
(* file" marker is not rendered.                                            *)

PatchContext == 4
SeparatorWidth == 67

DigitChars == <<"0", "1", "2", "3", "4", "5", "6", "7", "8", "9">>

RECURSIVE NumStr(_)
NumStr(n) == IF n < 10 THEN <<DigitChars[n + 1]>> ELSE NumStr(n \div 10) \o <<DigitChars[(n % 10) + 1]>>

RECURSIVE SplitLFScan(_, _, _, _)
SplitLFScan(s, i, cur, acc) ==
  IF i > Len(s) THEN Append(acc, cur)
  ELSE IF s[i] = LF THEN SplitLFScan(s, i + 1, <<>>, Append(acc, cur))
  ELSE SplitLFScan(s, i + 1, Append(cur, s[i]), acc)

\* the lines of a text, split at line feeds only (a carriage return stays part of its
\* line), without the empty piece after a final line feed
PatchLines(text) ==
  LET parts == SplitLFScan(text, 1, <<>>, <<>>)
  IN IF parts[Len(parts)] = <<>> THEN SubSeq(parts, 1, Len(parts) - 1) ELSE parts

RECURSIVE CommonPrefix(_, _)
CommonPrefix(o, n) ==
  IF Len(o) > 0 /\ Len(n) > 0 /\ Head(o) = Head(n) THEN 1 + CommonPrefix(Tail(o), Tail(n)) ELSE 0

RECURSIVE CommonSuffix(_, _)
CommonSuffix(o, n) ==
  IF Len(o) > 0 /\ Len(n) > 0 /\ o[Len(o)] = n[Len(n)]
  THEN 1 + CommonSuffix(SubSeq(o, 1, Len(o) - 1), SubSeq(n, 1, Len(n) - 1)) ELSE 0

Prefixed(c, lines) == [i \in 1..Len(lines) |-> <<c>> \o lines[i]]

PatchHunkLines(oldStr, newStr) ==
  LET o == PatchLines(oldStr)
      n == PatchLines(newStr)
      pre == CommonPrefix(o, n)
      suf == CommonSuffix(SubSeq(o, pre + 1, Len(o)), SubSeq(n, pre + 1, Len(n)))
      cb == Min(pre, PatchContext)
      ca == Min(suf, PatchContext)
      oldLines == cb + (Len(o) - pre - suf) + ca
      newLines == cb + (Len(n) - pre - suf) + ca
      oldStart == IF oldLines = 0 THEN pre - cb ELSE pre - cb + 1
      newStart == IF newLines = 0 THEN pre - cb ELSE pre - cb + 1
      header == <<"@", "@", " ", "-">> \o NumStr(oldStart) \o <<",">> \o NumStr(oldLines)
                  \o <<" ", "+">> \o NumStr(newStart) \o <<",">> \o NumStr(newLines)
                  \o <<" ", "@", "@">>
  IN IF o = n THEN <<>>
     ELSE <<header>>
            \o Prefixed(" ", SubSeq(o, pre - cb + 1, pre))
            \o Prefixed("-", SubSeq(o, pre + 1, Len(o) - suf))
            \o Prefixed("+", SubSeq(n, pre + 1, Len(n) - suf))
            \o Prefixed(" ", SubSeq(o, Len(o) - suf + 1, Len(o) - suf + ca))

createPatch(fileName, oldStr, newStr) ==
  LET lines == << <<"I", "n", "d", "e", "x", ":", " ">> \o fileName,
                  [i \in 1..SeparatorWidth |-> "="],
                  DASH3 \o <<" ">> \o fileName,
                  PLUS3 \o <<" ">> \o fileName >>
                \o PatchHunkLines(oldStr, newStr)
  IN Join(lines, <<LF>>) \o <<LF>>

----------------------------------------------------------------------------

\* the outcome of a call: err = "none" is a normal return of {updated, diff}; any other err
\* is the Error thrown, and updated then holds the local working buffer at the throw
DiffResult(err, updated, hunks, diff) ==
  [ok |-> err = "none", err |-> err, updated |-> updated, hunks |-> hunks, diff |-> diff]

\* variant: the scan starts one line late, diffLines.slice(3)
HasOtherFileLate(diffLines) == \E i \in 4..Len(diffLines) : StartsWith(diffLines[i], DASH3)

\* diffLines.slice(2).findIndex(line => line.startsWith("---")) !== -1
HasOtherFile(diffLines) == \E i \in 3..Len(diffLines) : StartsWith(diffLines[i], DASH3)

applyDiff(path, udiff, originalContent) ==
  LET clean == StripFences(udiff)
      diffLines == SplitLines(clean)
  IN IF ~HeadersPresent(diffLines) THEN DiffResult("header", <<>>, <<>>, <<>>)
     ELSE LET oldFile == HeaderPath(diffLines[1])
              newFile == HeaderPath(diffLines[2])
              oldFilePath == stripPrefix(oldFile)
              newFilePath == stripPrefix(newFile)
          IN IF oldFilePath # newFilePath THEN DiffResult("twofiles", <<>>, <<>>, <<>>)
             ELSE IF stripPrefix(path) # oldFilePath THEN DiffResult("pathmismatch", <<>>, <<>>, <<>>)
             ELSE IF HasOtherFile(diffLines) THEN DiffResult("multifile", <<>>, <<>>, <<>>)
             ELSE LET r == ApplyHunks(diffLines, 3, NormalizeNewlines(originalContent), <<>>)
                  IN IF r.err # "none" THEN DiffResult(r.err, r.updated, r.hunks, <<>>)
                     ELSE DiffResult("none", r.updated, r.hunks,
                                     DASH3 \o <<" ">> \o path \o <<LF>>
                                       \o PLUS3 \o <<" ">> \o path \o <<LF>>
                                       \o createPatch(path, originalContent, r.updated))

----------------------------------------------------------------------------
(* Vault, rollback store and tool handlers                                 *)

VARIABLES
  path,             \* applyDiff under test: the path argument
  udiff,            \* applyDiff under test: the udiff argument
  originalContent,  \* applyDiff under test: the originalContent argument
  result,           \* applyDiff under test: outcome of applyDiff(path, udiff, originalContent)
  again,            \* applyDiff under test: outcome of applying result.diff to the same original
  files,            \* the vault: normalized path -> [kind, data]
  rollbackStore,    \* helpers.ts rollbackStore: normalized path -> entry
  calls,            \* tool calls in flight: slot -> position and locals of the handler
  hist,             \* per path, the last completed calls (observation only)
  started,          \* number of tool calls started so far
  config,           \* server configuration: enableAuth, authToken
  request,          \* the HTTP request in the middleware chain, and its answer
  manager,          \* ServerManager fields: isShuttingDown, expressApp, httpServer, mcpServer
  servers,          \* the HTTP servers created so far: state and the configuration at start
  mgrOps,           \* start(), stop() and restart() calls in flight: position and locals
  mcpTransports,    \* ServerManager.mcpTransports: session id -> kind of transport
  http,             \* the HTTP request at the routes of the listening server
  clock,            \* entries of stop() so far, those made by start() included
  fuzzy             \* fuzzy-anchor diff-edit under test: inputs, anchors, loop and block start

vars == <<path, udiff, originalContent, result, again, files, rollbackStore, calls, hist, started,
          config, request, manager, servers, mgrOps, mcpTransports, http, clock, fuzzy>>
applyVars == <<path, udiff, originalContent, result, again>>
toolVars == <<files, rollbackStore, calls, hist, started>>
authVars == <<config, request>>
mgrVars == <<manager, servers, mgrOps, mcpTransports, http, clock>>
fuzzyVars == <<fuzzy>>

\* bounds of the model
MaxBlocks == 2     \* blocks (hunks, stray lines) in a generated diff body
MaxOps == 4        \* tool calls started in one behaviour, one after the other
MaxRaceOps == 2    \* tool calls started in one behaviour when calls interleave
MaxStoreOps == 3   \* calls started in one behaviour when only the last one may overlap
MaxCalls == 2      \* tool calls in flight at the same time
HistLen == 3       \* completed calls remembered per path

P_n == <<"n", ".", "m", "d">>
P_m == <<"m", ".", "m", "d">>
P_a == <<"a", ".", "m", "d">>
P_b == <<"b", ".", "m", "d">>
P_abn == <<"a", "/", "b", "/">> \o P_n

VaultPaths == {P_n, P_m}

RECURSIVE CollapseSlashes(_)
CollapseSlashes(p) ==
  IF Len(p) = 0 THEN <<>>
  ELSE IF Len(p) >= 2 /\ p[1] = "/" /\ p[2] = "/" THEN CollapseSlashes(Tail(p))
  ELSE <<p[1]>> \o CollapseSlashes(Tail(p))

\* normalizePath of the Obsidian API: repeated slashes collapse, leading and trailing slash go
normalizePath(p) ==
  LET c == CollapseSlashes(p)
      l == IF Len(c) > 0 /\ c[1] = "/" THEN Tail(c) ELSE c
  IN IF Len(l) > 0 /\ l[Len(l)] = "/" THEN SubSeq(l, 1, Len(l) - 1) ELSE l

NoFile == [kind |-> "none", data |-> <<>>]
Folder == [kind |-> "folder", data |-> <<>>]
FileOf(data) == [kind |-> "file", data |-> data]

\* app.vault.getAbstractFileByPath(p) is a TFile
IsFile(fs, p) == p \in VaultPaths /\ fs[p].kind = "file"
\* app.vault.getAbstractFileByPath(p) is null
IsAbsent(fs, p) == p \notin VaultPaths \/ fs[p].kind = "none"

NoEntry == [has |-> FALSE, content |-> <<>>, reason |-> "none"]
\* RollbackEntry; the timestamp, used only in the success message, is left out
RollbackEntry(content, reason) == [has |-> TRUE, content |-> content, reason |-> reason]

CallIds == 1..MaxCalls

IdleCall ==
  [tool |-> "none", pc |-> "idle", path |-> <<>>, arg |-> <<>>, fileContent |-> <<>>,
   snap |-> <<>>, result |-> "pending", err |-> "none",
   preFile |-> NoFile, preEntry |-> NoEntry, wrote |-> FALSE]

\* a call that starts on normalized path p: preFile, preEntry and wrote only observe
NewCall(tool, p, arg) ==
  [IdleCall EXCEPT !.tool = tool, !.path = p, !.arg = arg,
                   !.preFile = IF p \in VaultPaths THEN files[p] ELSE NoFile,
                   !.preEntry = IF p \in VaultPaths THEN rollbackStore[p] ELSE NoEntry]

Finished(call, res, err) == [call EXCEPT !.pc = "done", !.result = res, !.err = err]

AllIdle == \A c \in CallIds : calls[c].pc = "idle"
\* calls are anonymous: a new call takes the lowest free slot
FreeSlot(c) == calls[c].pc = "idle" /\ \A d \in CallIds : d < c => calls[d].pc # "idle"
CanStart(c) == FreeSlot(c) /\ started < MaxOps

----------------------------------------------------------------------------
(* saveRollback and restoreRollback (src/utils/helpers.ts)                 *)

\* the reason each tool passes to saveRollback
ReasonOf(tool) ==
  CASE tool = "diffedit" -> "diff-edit-file"
    [] tool = "upsert" -> "upsert-file"
    [] tool = "structured" -> "structured-update"

\* where a handler continues after `await saveRollback(...)`
AfterSave(tool) ==
  CASE tool = "diffedit" -> "de_write"
    [] tool = "upsert" -> "up_process"
    [] tool = "structured" -> "st_compute"

\* saveRollback up to its await: only a TFile is read, anything else skips the save
SaveRollbackEnter(call) ==
  IF IsFile(files, call.path) THEN [call EXCEPT !.pc = "rb_read"]
  ELSE [call EXCEPT !.pc = AfterSave(call.tool)]

\* a rejected promise inside a handler: caught where the await is inside the handler's
\* try block (upsert, structured update), passed on to the caller where it is not
\* (`await app.vault.read(file)` and `await saveRollback(...)` of diff-edit, and
\* `await restoreRollback(...)` of rollback-edit)
Rejected(call) ==
  Finished(call, IF call.tool \in {"diffedit", "rollback"} THEN "rejected" ELSE "error", "io")

\* `const content = await app.vault.read(file)` inside saveRollback: the read of a file
\* that is gone by now rejects
SaveRollbackRead(c) ==
  /\ calls[c].pc = "rb_read"
  /\ calls' = [calls EXCEPT ![c] =
       IF IsFile(files, calls[c].path)
       THEN [@ EXCEPT !.snap = files[calls[c].path].data, !.pc = "rb_store"]
       ELSE Rejected(@)]
  /\ UNCHANGED <<files, rollbackStore, hist, started, applyVars, authVars, mgrVars, fuzzyVars>>

\* variant: an entry already in the slot is kept
StoredKeepFirst(old, content, reason) == IF old.has THEN old ELSE RollbackEntry(content, reason)

\* the entry a save leaves in the slot of a path: the old entry is overwritten
Stored(old, content, reason) == RollbackEntry(content, reason)

\* `rollbackStore[normPath] = {content, timestamp, reason}`, then back in the handler
SaveRollbackStore(c) ==
  /\ calls[c].pc = "rb_store"
  /\ rollbackStore' = [rollbackStore EXCEPT ![calls[c].path] =
                         Stored(@, calls[c].snap, ReasonOf(calls[c].tool))]
  /\ calls' = [calls EXCEPT ![c].pc = AfterSave(calls[c].tool)]
  /\ UNCHANGED <<files, hist, started, applyVars, authVars, mgrVars, fuzzyVars>>

\* ".md" 
MdSuffix == <<".", "m", "d">>

\* variant: restoreRollback without the lookup of the file
RollbackEditStartUnchecked(c, rawPath) ==
  /\ CanStart(c)
  /\ started' = started + 1
  /\ LET normPath == normalizePath(rawPath)
         call == NewCall("rollback", normPath, <<>>)
     IN calls' = [calls EXCEPT ![c] =
          IF ~EndsWith(normPath, MdSuffix) THEN Finished(call, "error", "notmd")
          ELSE IF normPath \notin VaultPaths \/ ~rollbackStore[normPath].has
               THEN Finished(call, "error", "norollback")
          ELSE [call EXCEPT !.pc = "rs_modify", !.snap = rollbackStore[normPath].content]]
  /\ UNCHANGED <<files, rollbackStore, hist, applyVars, authVars, mgrVars, fuzzyVars>>

\* rollback-edit handler up to the await in restoreRollback: the .md test, the entry lookup
\* and the file lookup
RollbackEditStart(c, rawPath) ==
  /\ CanStart(c)
  /\ started' = started + 1
  /\ LET normPath == normalizePath(rawPath)
         call == NewCall("rollback", normPath, <<>>)
     IN calls' = [calls EXCEPT ![c] =
          IF ~EndsWith(normPath, MdSuffix) THEN Finished(call, "error", "notmd")
          ELSE IF normPath \notin VaultPaths \/ ~rollbackStore[normPath].has
               THEN Finished(call, "error", "norollback")
          ELSE IF ~IsFile(files, normPath) THEN Finished(call, "error", "nofile")
          ELSE [call EXCEPT !.pc = "rs_modify", !.snap = rollbackStore[normPath].content]]
  /\ UNCHANGED <<files, rollbackStore, hist, applyVars, authVars, mgrVars, fuzzyVars>>

\* the outcomes of app.vault.modify on a file: it writes; on a file that is gone by now
\* it may also reject
ModifyWrites(fs, p) == IF IsFile(fs, p) THEN {TRUE} ELSE BOOLEAN

\* `await app.vault.modify(file, entry.content)`
RestoreModify(c) ==
  /\ calls[c].pc = "rs_modify"
  /\ \E writes \in ModifyWrites(files, calls[c].path) :
       IF writes
       THEN /\ files' = [files EXCEPT ![calls[c].path] = FileOf(calls[c].snap)]
            /\ calls' = [calls EXCEPT ![c].pc = "rs_delete", ![c].wrote = TRUE]
       ELSE /\ files' = files
            /\ calls' = [calls EXCEPT ![c] = Rejected(@)]
  /\ UNCHANGED <<rollbackStore, hist, started, applyVars, authVars, mgrVars, fuzzyVars>>

\* variant: the entry stays in the slot
AfterRestoreKept(entry) == entry

\* what restoreRollback leaves in the slot after the write: the entry is deleted
AfterRestore(entry) == NoEntry

\* `delete rollbackStore[normPath]` and the success result
RestoreDelete(c) ==
  /\ calls[c].pc = "rs_delete"
  /\ rollbackStore' = [rollbackStore EXCEPT ![calls[c].path] = AfterRestore(@)]
  /\ calls' = [calls EXCEPT ![c] = Finished(@, "ok", "none")]
  /\ UNCHANGED <<files, hist, started, applyVars, authVars, mgrVars, fuzzyVars>>

----------------------------------------------------------------------------
(* diff-edit handler (src/vault/diff-edit.ts, registerDiffEditHandler)     *)

\* lookup of the file, then `await app.vault.read(file)` is issued
DiffEditStart(c, rawPath, diffText) ==
  /\ CanStart(c)
  /\ started' = started + 1
  /\ LET normPath == normalizePath(rawPath)
         call == NewCall("diffedit", normPath, diffText)
     IN calls' = [calls EXCEPT ![c] =
          IF ~IsFile(files, normPath) THEN Finished(call, "error", "notfound")
          ELSE [call EXCEPT !.pc = "de_read"]]
  /\ UNCHANGED <<files, rollbackStore, hist, applyVars, authVars, mgrVars, fuzzyVars>>

\* the read resolves into fileContent and saveRollback is entered; the read of a file
\* that is gone by now rejects, outside the try block
DiffEditRead(c) ==
  /\ calls[c].pc = "de_read"
  /\ calls' = [calls EXCEPT ![c] =
       IF IsFile(files, calls[c].path)
       THEN SaveRollbackEnter([@ EXCEPT !.fileContent = files[calls[c].path].data])
       ELSE Rejected(@)]
  /\ UNCHANGED <<files, rollbackStore, hist, started, applyVars, authVars, mgrVars, fuzzyVars>>

\* variant: the working buffer is written whether or not applyDiff threw
DiffEditWrittenAlways(fs, p, r) == [fs EXCEPT ![p] = FileOf(r.updated)]

\* the vault after the try block: the write is reached only when applyDiff returned
DiffEditWritten(fs, p, r) == IF r.ok THEN [fs EXCEPT ![p] = FileOf(r.updated)] ELSE fs

\* variant: the write is refused when the file is no longer what the handler read
DiffEditWriteChecked(c) ==
  /\ calls[c].pc = "de_write"
  /\ LET r == applyDiff(calls[c].path, calls[c].arg, calls[c].fileContent)
         same == files[calls[c].path] = FileOf(calls[c].fileContent)
     IN /\ files' = IF same THEN DiffEditWritten(files, calls[c].path, r) ELSE files
        /\ calls' = [calls EXCEPT ![c] =
             IF same
             THEN Finished([@ EXCEPT !.wrote = r.ok], IF r.ok THEN "ok" ELSE "error", r.err)
             ELSE Finished(@, "error", "conflict")]
  /\ UNCHANGED <<rollbackStore, hist, started, applyVars, authVars, mgrVars, fuzzyVars>>

\* the try/catch: applyDiff on the handler's own read, the write, and the result
DiffEditWrite(c) ==
  /\ calls[c].pc = "de_write"
  /\ LET r == applyDiff(calls[c].path, calls[c].arg, calls[c].fileContent)
     IN /\ files' = DiffEditWritten(files, calls[c].path, r)
        /\ calls' = [calls EXCEPT ![c] =
             Finished([@ EXCEPT !.wrote = r.ok],
                      IF r.ok THEN "ok" ELSE "error", r.err)]
  /\ UNCHANGED <<rollbackStore, hist, started, applyVars, authVars, mgrVars, fuzzyVars>>

----------------------------------------------------------------------------
(* upsert handler (src/vault/upsert.ts, registerUpsertFileHandler)         *)

\* lookup of the path: a folder is refused, a file goes through saveRollback,
\* a free path goes through ensureFolder to vault.create
UpsertStart(c, rawPath, content) ==
  /\ CanStart(c)
  /\ started' = started + 1
  /\ LET normPath == normalizePath(rawPath)
         call == NewCall("upsert", normPath, content)
     IN calls' = [calls EXCEPT ![c] =
          IF IsAbsent(files, normPath) THEN [call EXCEPT !.pc = "up_create"]
          ELSE IF ~IsFile(files, normPath) THEN Finished(call, "error", "folder")
          ELSE SaveRollbackEnter(call)]
  /\ UNCHANGED <<files, rollbackStore, hist, applyVars, authVars, mgrVars, fuzzyVars>>

\* variant: a line feed is always put before the content
AppendedOnNewLine(currentData, content) == currentData \o <<LF>> \o content

\* the callback given to app.vault.process
Appended(currentData, content) ==
  (IF EndsWith(currentData, <<LF>>) THEN currentData ELSE currentData \o <<LF>>) \o content

\* `await app.vault.process(file, ...)`: an atomic read-modify-write of the file
UpsertProcess(c) ==
  /\ calls[c].pc = "up_process"
  /\ IF IsFile(files, calls[c].path)
     THEN /\ files' = [files EXCEPT ![calls[c].path] = FileOf(Appended(@.data, calls[c].arg))]
          /\ calls' = [calls EXCEPT ![c] = Finished([@ EXCEPT !.wrote = TRUE], "ok", "none")]
     ELSE /\ files' = files
          /\ calls' = [calls EXCEPT ![c] = Finished(@, "error", "io")]
  /\ UNCHANGED <<rollbackStore, hist, started, applyVars, authVars, mgrVars, fuzzyVars>>

\* `await app.vault.create(normPath, content)`: fails when the path is taken by now
UpsertCreate(c) ==
  /\ calls[c].pc = "up_create"
  /\ IF calls[c].path \in VaultPaths /\ IsAbsent(files, calls[c].path)
     THEN /\ files' = [files EXCEPT ![calls[c].path] = FileOf(calls[c].arg)]
          /\ calls' = [calls EXCEPT ![c] = Finished([@ EXCEPT !.wrote = TRUE], "ok", "none")]
     ELSE /\ files' = files
          /\ calls' = [calls EXCEPT ![c] = Finished(@, "error", "io")]
  /\ UNCHANGED <<rollbackStore, hist, started, applyVars, authVars, mgrVars, fuzzyVars>>

----------------------------------------------------------------------------
(* structured update (src/unnamed/part_005, handleStructuredUpdate)        *)

FrontDelim == <<"-", "-", "-", LF>>

\* "---\n" + yaml.dump(dataToSave) + "---\n" for a schema with the single key k
YamlContent(value) == FrontDelim \o <<"k", ":", " ">> \o value \o <<LF>> \o FrontDelim

\* cache.frontmatterPosition.end.offset of the metadata cache: the offset just after the
\* closing "---" of a front matter block that opens the file, -1 when there is none
FrontmatterEnd(content) ==
  IF ~StartsWith(content, FrontDelim) THEN -1
  ELSE LET close == IndexFrom(content, <<LF>> \o DASH3, 3)
       IN IF close < 0 THEN -1 ELSE close + 4

\* the target path the schema's path template expands to
StructuredTarget == P_n

StructuredStart(c, value) ==
  /\ CanStart(c)
  /\ started' = started + 1
  /\ LET call == NewCall("structured", StructuredTarget, value)
     IN calls' = [calls EXCEPT ![c] =
          IF IsAbsent(files, StructuredTarget) THEN [call EXCEPT !.pc = "st_create"]
          ELSE IF ~IsFile(files, StructuredTarget) THEN Finished(call, "error", "folder")
          ELSE [call EXCEPT !.pc = "st_read"]]
  /\ UNCHANGED <<files, rollbackStore, hist, applyVars, authVars, mgrVars, fuzzyVars>>

\* `await app.vault.create(targetPath, yamlContent)`
StructuredCreate(c) ==
  /\ calls[c].pc = "st_create"
  /\ IF IsAbsent(files, calls[c].path)
     THEN /\ files' = [files EXCEPT ![calls[c].path] = FileOf(YamlContent(calls[c].arg))]
          /\ calls' = [calls EXCEPT ![c] = Finished([@ EXCEPT !.wrote = TRUE], "ok", "none")]
     ELSE /\ files' = files
          /\ calls' = [calls EXCEPT ![c] = Finished(@, "error", "io")]
  /\ UNCHANGED <<rollbackStore, hist, started, applyVars, authVars, mgrVars, fuzzyVars>>

\* `const content = await app.vault.cachedRead(file)`, then saveRollback is entered
StructuredRead(c) ==
  /\ calls[c].pc = "st_read"
  /\ calls' = [calls EXCEPT ![c] =
       IF IsFile(files, calls[c].path)
       THEN SaveRollbackEnter([@ EXCEPT !.fileContent = files[calls[c].path].data])
       ELSE Rejected(@)]
  /\ UNCHANGED <<files, rollbackStore, hist, started, applyVars, authVars, mgrVars, fuzzyVars>>

\* yamlContent + (body || "\n"), the body cut from the handler's read at the cached offset
StructuredContent(content, cachedOffset, value) ==
  LET body == IF cachedOffset >= 0 THEN SliceFrom(content, cachedOffset) ELSE <<>>
  IN YamlContent(value) \o (IF body = <<>> THEN <<LF>> ELSE body)

\* after saveRollback: the metadata cache of the file as it is now, and the new content
StructuredCompute(c) ==
  /\ calls[c].pc = "st_compute"
  /\ calls' = [calls EXCEPT ![c].snap =
                 StructuredContent(calls[c].fileContent,
                                   IF IsFile(files, calls[c].path)
                                   THEN FrontmatterEnd(files[calls[c].path].data) ELSE -1,
                                   calls[c].arg),
                            ![c].pc = "st_modify"]
  /\ UNCHANGED <<files, rollbackStore, hist, started, applyVars, authVars, mgrVars, fuzzyVars>>

\* `await app.vault.modify(file, newContent)`
StructuredModify(c) ==
  /\ calls[c].pc = "st_modify"
  /\ \E writes \in ModifyWrites(files, calls[c].path) :
       IF writes
       THEN /\ files' = [files EXCEPT ![calls[c].path] = FileOf(calls[c].snap)]
            /\ calls' = [calls EXCEPT ![c] = Finished([@ EXCEPT !.wrote = TRUE], "ok", "none")]
       ELSE /\ files' = files
            /\ calls' = [calls EXCEPT ![c] = Rejected(@)]
  /\ UNCHANGED <<rollbackStore, hist, started, applyVars, authVars, mgrVars, fuzzyVars>>

----------------------------------------------------------------------------
(* bearerAuth and its place in ServerManager.start                         *)
(* (src/managers/StructuredManager.ts)                                     *)

Unauthorized == 401
Forbidden == 403

UpperCase == <<"A", "B", "C", "D", "E", "F", "G", "H", "I", "J", "K", "L", "M",
               "N", "O", "P", "Q", "R", "S", "T", "U", "V", "W", "X", "Y", "Z">>
LowerCase == <<"a", "b", "c", "d", "e", "f", "g", "h", "i", "j", "k", "l", "m",
               "n", "o", "p", "q", "r", "s", "t", "u", "v", "w", "x", "y", "z">>

\* s.toLowerCase()
toLowerCase(s) ==
  [i \in 1..Len(s) |->
     IF \E k \in 1..Len(UpperCase) : UpperCase[k] = s[i]
     THEN LowerCase[CHOOSE k \in 1..Len(UpperCase) : UpperCase[k] = s[i]]
     ELSE s[i]]

RECURSIVE FirstSpace(_, _)
\* first 1-based position at or after i that holds a whitespace character, or Len + 1
FirstSpace(s, i) == IF i <= Len(s) /\ ~IsSpace(s[i]) THEN FirstSpace(s, i + 1) ELSE i

\* authHeader.split(/\s+/, 2): the text before the first run of whitespace and, when
\* there is such a run, the text between it and the next run; the rest is dropped
SplitWords2(s) ==
  LET e1 == FirstSpace(s, 1)
      b2 == SkipSpace(s, e1)
      e2 == FirstSpace(s, b2)
  IN IF e1 > Len(s) THEN <<s>> ELSE <<SubSeq(s, 1, e1 - 1), SubSeq(s, b2, e2 - 1)>>

\* s.trim()
Trim(s) ==
  LET inner == {i \in 1..Len(s) : ~IsSpace(s[i])}
  IN IF inner = {} THEN <<>>
     ELSE SubSeq(s, CHOOSE i \in inner : \A j \in inner : i <= j,
                    CHOOSE i \in inner : \A j \in inner : i >= j)

\* variant: only the lengths are compared
EqualLengths(expected, actual) == Len(expected) = Len(actual)

\* expected.length === actual.length and timingSafeEqual(expected, actual)
AreEqual(expected, actual) == Len(expected) = Len(actual) /\ expected = actual

NoToken == [has |-> FALSE, val |-> <<>>]

\* () => (this.config.enableAuth ? this.config.authToken : null)
getToken(cfg) == IF cfg.enableAuth THEN [has |-> TRUE, val |-> cfg.authToken] ELSE NoToken

\* req.header("Authorization") || ""
AuthHeaderOf(req) == IF req.hasHeader THEN req.header ELSE <<>>

BearerWord == <<"b", "e", "a", "r", "e", "r">>

\* the middleware: status 0 stands for next(), the request goes on to its route
bearerAuth(token, req) ==
  IF ~token.has THEN 0
  ELSE LET parts == SplitWords2(AuthHeaderOf(req))
           scheme == parts[1]
       IN IF toLowerCase(scheme) # BearerWord \/ Len(parts) < 2 \/ parts[2] = <<>>
          THEN Unauthorized
          ELSE IF ~AreEqual(token.val, Trim(parts[2])) THEN Forbidden
          ELSE 0

\* the routes of setupRoutes
Routes == {"/mcp", "/sse", "/messages"}

NoRequest ==
  [stage |-> "none", route |-> "none", hasHeader |-> FALSE, header |-> <<>>,
   status |-> 0, handled |-> FALSE]

\* the settings the server runs with are changed (toggle, Regenerate, restart)
Configure(enable, token) ==
  /\ request.stage = "none"
  /\ config' = [enableAuth |-> enable, authToken |-> token]
  /\ config' # config
  /\ UNCHANGED <<request, applyVars, toolVars, mgrVars, fuzzyVars>>

\* a request for a route arrives, with or without an Authorization header
Receive(route, hasHeader, header) ==
  /\ request.stage = "none"
  /\ request' = [NoRequest EXCEPT !.stage = "received", !.route = route,
                                  !.hasHeader = hasHeader, !.header = header]
  /\ UNCHANGED <<config, applyVars, toolVars, mgrVars, fuzzyVars>>

\* express runs the chain: bearerAuth is registered by use() before setupRoutes(), so it
\* runs for every route; next() calls the route handler in the same turn
RunChain ==
  /\ request.stage = "received"
  /\ LET status == bearerAuth(getToken(config), request)
     IN request' = [request EXCEPT !.stage = "answered", !.status = status,
                                   !.handled = (status = 0)]
  /\ UNCHANGED <<config, applyVars, toolVars, mgrVars, fuzzyVars>>

\* the response is sent and the connection is done with
Close ==
  /\ request.stage = "answered"
  /\ request' = NoRequest
  /\ UNCHANGED <<config, applyVars, toolVars, mgrVars, fuzzyVars>>

----------------------------------------------------------------------------
(* Inputs of the model *)

\* replace the line a by b
B_ab == << <<"@", "@", " ", "@", "@">>, <<"-", "a">>, <<"+", "b">> >>
\* replace the line b by c
B_bc == << <<"@", "@", " ", "@", "@">>, <<"-", "b">>, <<"+", "c">> >>
\* context a, remove the line b
B_ctx == << <<"@", "@", " ", "-", "1", " ", "+", "1", " ", "@", "@">>, <<" ", "a">>, <<"-", "b">> >>
\* only an added line: empty search block
B_add == << <<"@", "@", " ", "@", "@">>, <<"+", "c">> >>
\* only a context line
B_keep == << <<"@", "@", " ", "@", "@">>, <<" ", "a">> >>
\* hunk header without closing @@
B_bare == << <<"@", "@">>, <<"-", "a">>, <<"+", "b">> >>
\* an empty line (after the last line: the diff ends with a line feed)
B_blank == << <<>> >>
\* a second file header
B_other == << <<"-", "-", "-", " ", "a", ".", "m", "d">> >>
\* a line that is no hunk header
B_junk == << <<"z", "z">> >>

BlockSet == {B_ab, B_bc, B_ctx, B_add, B_keep, B_bare, B_blank, B_other, B_junk}

\* header pairs: line 0 and line 1 of a diff
HP_plain == << <<"-", "-", "-", " ", "n", ".", "m", "d">>, <<"+", "+", "+", " ", "n", ".", "m", "d">> >>
HP_git == << <<"-", "-", "-", " ", "a", "/", "n", ".", "m", "d">>, <<"+", "+", "+", " ", "b", "/", "n", ".", "m", "d">> >>
HP_ab == << <<"-", "-", "-", " ", "a", ".", "m", "d">>, <<"+", "+", "+", " ", "b", ".", "m", "d">> >>
HP_glued == << <<"-", "-", "-", "n", ".", "m", "d">>, <<"+", "+", "+", " ", "n", ".", "m", "d">> >>
HP_noplus == << <<"-", "-", "-", " ", "n", ".", "m", "d">>, <<"+", "+", " ", "n", ".", "m", "d">> >>
HP_nodash == << <<"-", "-", " ", "n", ".", "m", "d">>, <<"+", "+", "+", " ", "n", ".", "m", "d">> >>

HeaderSet == {HP_plain, HP_git, HP_ab, HP_glued, HP_noplus, HP_nodash}

PathSet == {P_n, P_abn, P_a, P_b}

\* original contents
C_empty == <<>>
C_ab == <<"a", LF, "b">>
C_abn == <<"a", LF, "b", LF>>
C_crlf == <<"a", CR, LF, "b">>
C_bab == <<"b", LF, "a", LF, "b">>

ContentSet == {C_empty, C_ab, C_abn, C_crlf, C_bab}

RECURSIVE Flatten(_)
Flatten(blocks) == IF Len(blocks) = 0 THEN <<>> ELSE Head(blocks) \o Flatten(Tail(blocks))

BodySet == UNION {[1..n -> BlockSet] : n \in 0..MaxBlocks}

\* the text of a diff: the lines joined by line feeds, inside a BQBQBQdiff fence or bare
DiffText(header, body, fenced) ==
  LET text == Join(header \o Flatten(body), <<LF>>)
  IN IF fenced THEN FenceOpen \o <<LF>> \o text \o <<LF>> \o FenceClose ELSE text

DiffSet == {DiffText(h, b, f) : h \in HeaderSet, b \in BodySet, f \in BOOLEAN}

\* inputs for the classification of hunk-body lines
\* remove the Markdown rule line "---", add c
B_rule == << <<"@", "@", " ", "@", "@">>, <<"-", "-", "-", "-">>, <<"+", "c">> >>
\* context a, an empty line, replace the line b by c
B_gap == << <<"@", "@", " ", "@", "@">>, <<" ", "a">>, <<>>, <<"-", "b">>, <<"+", "c">> >>

BodyBlockSet == {B_rule, B_gap, B_ab, B_add, B_blank, B_bare}

\* a front-matter delimiter or rule, then a
C_rule == <<"-", "-", "-", LF, "a">>
\* a, a blank line, b
C_gap == <<"a", LF, LF, "b">>

BodyContentSet == {C_empty, C_ab, C_rule, C_gap}

\* well-formed header pair for n.md, bodies over BodyBlockSet, no fence
BodyDiffSet ==
  {DiffText(HP_plain, b, FALSE) : b \in UNION {[1..n -> BodyBlockSet] : n \in 0..MaxBlocks}}

\* diffs given to the diff-edit tool
\* first line a becomes b
T_ab == <<"-", "-", "-", " ", "n", ".", "m", "d", LF, "+", "+", "+", " ", "n", ".", "m", "d", LF, "@", "@", " ", "@", "@", LF, "-", "a", LF, "+", "b">>
\* two hunks: a becomes b, then c becomes d
T_two == <<"-", "-", "-", " ", "n", ".", "m", "d", LF, "+", "+", "+", " ", "n", ".", "m", "d", LF, "@", "@", " ", "@", "@", LF, "-", "a", LF, "+", "b", LF, "@", "@", " ", "@", "@", LF, "-", "c", LF, "+", "d">>
\* malformed first header line
T_bad == <<"-", "-", " ", "n", ".", "m", "d", LF, "+", "+", "+", " ", "n", ".", "m", "d", LF, "@", "@", " ", "@", "@", LF, "-", "a", LF, "+", "b">>

ToolDiffs == {T_ab, T_two, T_bad}

\* tokens of the configuration: the default "" and two generated tokens of one length
TK_none == <<>>
TK_good == <<"t", "k">>
TK_other == <<"b", "d">>
TokenSet == {TK_none, TK_good}

\* Authorization header values
AuthHeaderSet ==
  {<<>>,
   <<"B", "e", "a", "r", "e", "r">>,
   <<"B", "e", "a", "r", "e", "r", " ">>,
   <<"B", "e", "a", "r", "e", "r", " ">> \o TK_good,
   <<"B", "e", "a", "r", "e", "r", " ">> \o TK_other,
   <<"B", "e", "a", "r", "e", "r", " ", " ">> \o TK_good,
   <<"B", "e", "a", "r", "e", "r", " ">> \o TK_good \o <<" ", "x">>,
   <<"b", "e", "a", "r", "e", "r", " ">> \o TK_good,
   <<"B", "a", "s", "i", "c", " ">> \o TK_good,
   TK_good}

\* paths given to the tools, not yet normalized
ToolPaths == {P_n, <<"/">> \o P_m}
UpsertContents == {<<"a">>, <<"c">>}
StructuredValues == {<<"1">>}
\* a, then c
C_ac == <<"a", LF, "c">>
InitContents == {<<"a">>, C_abn, C_ac}

----------------------------------------------------------------------------
(* Completion of a call, initial states, specifications                    *)

\* what hist keeps of a completed call
HistEntry(call) == [tool |-> call.tool, ok |-> call.result = "ok", pre |-> call.preFile]

LastOf(seq, n) == IF Len(seq) > n THEN SubSeq(seq, Len(seq) - n + 1, Len(seq)) ELSE seq

\* the handler's promise resolves: the result reaches the caller
Return(c) ==
  /\ calls[c].pc = "done"
  /\ hist' = IF calls[c].path \in VaultPaths
             THEN [hist EXCEPT ![calls[c].path] = LastOf(Append(@, HistEntry(calls[c])), HistLen)]
             ELSE hist
  /\ calls' = [calls EXCEPT ![c] = IdleCall]
  /\ UNCHANGED <<files, rollbackStore, started, applyVars, authVars, mgrVars, fuzzyVars>>

\* the vault changes under the plugin: a file is deleted by the user or another plugin,
\* and a folder may take its name (the TFile a handler holds then refers to a file that
\* is gone)
VaultDelete(p) ==
  /\ IsFile(files, p)
  /\ started < MaxRaceOps
  /\ started' = started + 1
  /\ \E gone \in {NoFile, Folder} : files' = [files EXCEPT ![p] = gone]
  /\ hist' = [hist EXCEPT ![p] =
                LastOf(Append(@, [tool |-> "delete", ok |-> TRUE, pre |-> files[p]]), HistLen)]
  /\ UNCHANGED <<rollbackStore, calls, applyVars, authVars, mgrVars, fuzzyVars>>

NoResult == DiffResult("pending", <<>>, <<>>, <<>>)

\* applyDiff under test: the call
Apply ==
  /\ result = NoResult
  /\ result' = applyDiff(path, udiff, originalContent)
  /\ UNCHANGED <<path, udiff, originalContent, again, toolVars, authVars, mgrVars, fuzzyVars>>

\* applyDiff under test: the returned diff text applied to the same original
Reapply ==
  /\ result.ok
  /\ again = NoResult
  /\ again' = applyDiff(path, result.diff, originalContent)
  /\ UNCHANGED <<path, udiff, originalContent, result, toolVars, authVars, mgrVars, fuzzyVars>>

----------------------------------------------------------------------------
(* ServerManager (src/managers/StructuredManager.ts): start(), stop(),      *)
(* restart(), updateConfig(), the routes and the session map.  The express  *)
(* application, the HTTP server and the MCP server of one start() are       *)
(* created together and share one number; 0 is null.                        *)

MaxServers == 2     \* HTTP servers created in one behaviour
MaxMgrOps == 2      \* start(), stop() and restart() calls in flight at the same time
MaxMgrEvents == 3   \* entries of stop() in one behaviour, those made by start() included
MaxSessions == 2    \* session ids handed out in one behaviour
MaxRequests == 2    \* HTTP requests received in one behaviour

ServerIds == 1..MaxServers
MgrOpIds == 1..MaxMgrOps
SessionIds == 1..MaxSessions

\* status codes sent by the route handlers
BadRequest == 400
Unavailable == 503
Served == 200

DefaultConfig == [enableAuth |-> FALSE, authToken |-> <<>>]

\* an HTTP server: "made" by http.createServer, "binding" after listen(), "listening"
\* after the listen callback, "closing" after close() while connections are open,
\* "closed" after that; cfg is this.config as it was when start() last went on (the
\* configuration the server was started with), startAt the entry of the start() that
\* made it
NoServer == [state |-> "none", cfg |-> DefaultConfig, startAt |-> 0]

\* the fields of a new ServerManager
NewManager == [isShuttingDown |-> FALSE, expressApp |-> 0, httpServer |-> 0, mcpServer |-> 0]

\* a request as the routes see it: sid is the mcp-session-id header on /mcp and the
\* sessionId query parameter on /messages (0: none), init says that the body's method is
\* "initialize"; served is the kind of transport the request was handed to, newSid the
\* session id registered for it, seq counts the requests
NoHttp ==
  [stage |-> "none", server |-> 0, route |-> "none", method |-> "none", sid |-> 0,
   init |-> FALSE, hasHeader |-> FALSE, header |-> <<>>, status |-> 0, served |-> "none",
   newSid |-> 0, seq |-> 0]

\* a start(), stop() or restart() call: after is what follows the stop() it awaits, began
\* the entry of its start(), stopAt the entry of its stop(), target the server listen()
\* was called on; stopSince observes a stop() entered by another call since began
IdleOp ==
  [kind |-> "none", pc |-> "idle", after |-> "none", began |-> 0, stopAt |-> 0,
   target |-> 0, stopSince |-> FALSE, outcome |-> "pending"]

MgrFreeSlot(o) == mgrOps[o].pc = "idle" /\ \A p \in MgrOpIds : p < o => mgrOps[p].pc # "idle"

\* every other call whose start() has begun sees that a stop() was entered
StopSeenBy(ops, o) ==
  [p \in MgrOpIds |->
     IF p # o /\ ops[p].began > 0 THEN [ops[p] EXCEPT !.stopSince = TRUE] ELSE ops[p]]

\* closeServers() up to its await: close() on the HTTP server the manager holds
ServersClosing(srv, m) ==
  IF m.httpServer # 0 /\ srv[m.httpServer].state \in {"binding", "listening"}
  THEN [srv EXCEPT ![m.httpServer].state = "closing"]
  ELSE srv

\* stop() up to its first await, entered by call o: a stop in progress makes it return
\* at once, otherwise isShuttingDown is set and cleanupResources() starts
EnterStop(o, call, after) ==
  /\ clock' = clock + 1
  /\ IF manager.isShuttingDown
     THEN /\ manager' = manager
          /\ servers' = servers
          /\ mgrOps' = [StopSeenBy(mgrOps, o) EXCEPT ![o] =
               [call EXCEPT !.pc = "stop_returned", !.after = after]]
     ELSE /\ manager' = [manager EXCEPT !.isShuttingDown = TRUE]
          /\ servers' = ServersClosing(servers, manager)
          /\ mgrOps' = [StopSeenBy(mgrOps, o) EXCEPT ![o] =
               [call EXCEPT !.pc = "cl_transports", !.after = after, !.stopAt = clock + 1]]

\* stop() is called
StopCall(o) ==
  /\ MgrFreeSlot(o) /\ clock < MaxMgrEvents
  /\ EnterStop(o, [IdleOp EXCEPT !.kind = "stop"], "resolve")
  /\ UNCHANGED <<mcpTransports, http, applyVars, toolVars, authVars, fuzzyVars>>

\* restart() is called: `await this.stop()` first
RestartCall(o) ==
  /\ MgrFreeSlot(o) /\ clock < MaxMgrEvents
  /\ EnterStop(o, [IdleOp EXCEPT !.kind = "restart"], "start")
  /\ UNCHANGED <<mcpTransports, http, applyVars, toolVars, authVars, fuzzyVars>>

\* start() is called: `await this.stop()` first
StartCall(o) ==
  /\ MgrFreeSlot(o) /\ clock < MaxMgrEvents
  /\ EnterStop(o, [IdleOp EXCEPT !.kind = "start", !.began = clock + 1], "create")
  /\ UNCHANGED <<mcpTransports, http, applyVars, toolVars, authVars, fuzzyVars>>

\* what clear() leaves of the session map: no session is registered
Cleared(map) == [s \in SessionIds |-> IF map[s] = "none" THEN "none" ELSE "closed"]

\* closeTransports() after its await: `this.mcpTransports.clear()`
TransportsClosed(o) ==
  /\ mgrOps[o].pc = "cl_transports"
  /\ mcpTransports' = Cleared(mcpTransports)
  /\ mgrOps' = [mgrOps EXCEPT ![o].pc = "cl_refs"]
  /\ UNCHANGED <<manager, servers, http, clock, applyVars, toolVars, authVars, fuzzyVars>>

\* cleanupResources() after `await Promise.all(...)`: the connections of the server that
\* was closed are gone (closeAllConnections), a request still waiting on one of them
\* with them, and the three references are set to null
RefsCleared(o) ==
  /\ mgrOps[o].pc = "cl_refs"
  /\ manager' = [manager EXCEPT !.expressApp = 0, !.httpServer = 0, !.mcpServer = 0]
  /\ servers' = [g \in ServerIds |->
                   IF servers[g].state = "closing" THEN [servers[g] EXCEPT !.state = "closed"]
                   ELSE servers[g]]
  /\ mgrOps' = [mgrOps EXCEPT ![o].pc = "stop_finally"]
  /\ http' = IF http.stage = "received" /\ servers[http.server].state = "closing"
             THEN [NoHttp EXCEPT !.seq = http.seq] ELSE http
  /\ UNCHANGED <<mcpTransports, clock, applyVars, toolVars, authVars, fuzzyVars>>

\* stop(): `finally { this.isShuttingDown = false }`
StopFinally(o) ==
  /\ mgrOps[o].pc = "stop_finally"
  /\ manager' = [manager EXCEPT !.isShuttingDown = FALSE]
  /\ mgrOps' = [mgrOps EXCEPT ![o].pc = "stop_returned"]
  /\ UNCHANGED <<servers, mcpTransports, http, clock, applyVars, toolVars, authVars, fuzzyVars>>

\* the stop() a call awaited has returned and nothing follows: stop() resolves, or the
\* catch block of start() throws the error again
StopResolved(o) ==
  /\ mgrOps[o].pc = "stop_returned" /\ mgrOps[o].after \in {"resolve", "throw"}
  /\ mgrOps' = [mgrOps EXCEPT ![o].pc = "done",
                  ![o].outcome = IF mgrOps[o].after = "resolve" THEN "ok" ELSE "failed"]
  /\ UNCHANGED <<manager, servers, mcpTransports, http, clock, applyVars, toolVars, authVars, fuzzyVars>>

\* restart() after `await this.stop()`: start() is entered, `await this.stop()` again
RestartStart(o) ==
  /\ mgrOps[o].pc = "stop_returned" /\ mgrOps[o].after = "start"
  /\ EnterStop(o, [mgrOps[o] EXCEPT !.began = clock + 1], "create")
  /\ UNCHANGED <<mcpTransports, http, applyVars, toolVars, authVars, fuzzyVars>>

\* the server numbers not used yet
UnusedServers == {g \in ServerIds : servers[g].state = "none"}

\* start() after `await this.stop()`: isShuttingDown is reset, the express application,
\* the HTTP server and the MCP server are created, `await this.onToolRegistration()`
StartCreate(o) ==
  /\ mgrOps[o].pc = "stop_returned" /\ mgrOps[o].after = "create"
  /\ UnusedServers # {}
  /\ LET g == CHOOSE x \in UnusedServers : \A y \in UnusedServers : x <= y
     IN /\ manager' = [isShuttingDown |-> FALSE, expressApp |-> g, httpServer |-> g,
                       mcpServer |-> g]
        /\ servers' = [servers EXCEPT ![g] =
                         [state |-> "made", cfg |-> config, startAt |-> mgrOps[o].began]]
        /\ mgrOps' = [mgrOps EXCEPT ![o].pc = "tools"]
  /\ UNCHANGED <<mcpTransports, http, clock, applyVars, toolVars, authVars, fuzzyVars>>

\* start() after the tool registration: `this.expressApp.use(bearerAuth(...))` throws on
\* a null expressApp, setupRoutes(), then listen() is called on this.httpServer, which
\* throws on a server that listen() was called on before; the catch block calls stop()
StartRoutes(o) ==
  /\ mgrOps[o].pc = "tools"
  /\ LET h == manager.httpServer IN
     IF manager.expressApp = 0 \/ h = 0 \/ servers[h].state \in {"binding", "listening"}
     THEN EnterStop(o, mgrOps[o], "throw")
     ELSE /\ servers' = [servers EXCEPT ![h].state = "binding", ![h].cfg = config]
          /\ mgrOps' = [mgrOps EXCEPT ![o].pc = "listen", ![o].target = h]
          /\ UNCHANGED <<manager, clock, fuzzyVars>>
  /\ UNCHANGED <<mcpTransports, http, applyVars, toolVars, authVars, fuzzyVars>>

\* another server holds the port
PortInUse(h) == \E g \in ServerIds : g # h /\ servers[g].state \in {"listening", "closing"}

\* listen(): the callback of httpServer.listen resolves, the "error" event (EADDRINUSE)
\* rejects and the catch block of start() calls stop()
StartListening(o) ==
  /\ mgrOps[o].pc = "listen"
  /\ LET h == mgrOps[o].target IN
     IF servers[h].state = "binding" /\ PortInUse(h)
     THEN EnterStop(o, mgrOps[o], "throw")
     ELSE /\ servers' = IF servers[h].state = "binding"
                        THEN [servers EXCEPT ![h].state = "listening", ![h].cfg = config]
                        ELSE servers
          /\ mgrOps' = [mgrOps EXCEPT ![o].pc = "done", ![o].outcome = "ok"]
          /\ UNCHANGED <<manager, clock, fuzzyVars>>
  /\ UNCHANGED <<mcpTransports, http, applyVars, toolVars, authVars, fuzzyVars>>

\* the promise of the call is settled and its caller goes on
MgrReturn(o) ==
  /\ mgrOps[o].pc = "done"
  /\ mgrOps' = [mgrOps EXCEPT ![o] = IdleOp]
  /\ UNCHANGED <<manager, servers, mcpTransports, http, clock, applyVars, toolVars, authVars, fuzzyVars>>

\* updateConfig(newConfig): `this.config = newConfig`
UpdateConfig(enable, token) ==
  /\ config' = [enableAuth |-> enable, authToken |-> token]
  /\ config' # config
  /\ UNCHANGED <<request, mgrVars, applyVars, toolVars, fuzzyVars>>

Registered(map, sid) == sid \in SessionIds /\ map[sid] \in {"sse", "streamable"}

\* the session ids not handed out yet (randomUUID never repeats one)
FreshSids == {s \in SessionIds : mcpTransports[s] = "none"}

\* a request arrives on a connection of a server that listens or is closing
HttpReceive(g, route, method, sid, init, hasHeader, header) ==
  /\ http.stage = "none" /\ http.seq < MaxRequests
  /\ servers[g].state \in {"listening", "closing"}
  /\ FreshSids # {}
  /\ http' = [NoHttp EXCEPT !.stage = "received", !.server = g, !.route = route,
                            !.method = method, !.sid = sid, !.init = init,
                            !.hasHeader = hasHeader, !.header = header,
                            !.seq = http.seq + 1]
  /\ UNCHANGED <<manager, servers, mgrOps, mcpTransports, clock, applyVars, toolVars, authVars, fuzzyVars>>

\* variant of resolveStreamableTransport: any registered session is accepted
ResolvesAnyKind(map, req) == Registered(map, req.sid)

\* resolveStreamableTransport, case 1 with getExistingTransport: the session id names a
\* registered StreamableHTTP transport
ResolvesStreamable(map, req) == Registered(map, req.sid) /\ map[req.sid] = "streamable"

\* resolveStreamableTransport, case 2: no session id, POST, body.method "initialize"
IsInitialize(req) == req.sid = 0 /\ req.method = "POST" /\ req.init

\* resolveSseTransport: the session id names a registered SSE transport
ResolvesSse(map, req) == Registered(map, req.sid) /\ map[req.sid] = "sse"

\* the answer of the chain to a request: the status, the kind of transport that serves
\* it and whether a new session is registered.  bearerAuth runs first and reads
\* this.config through its getter; every route handler first tests isShuttingDown
RouteAnswer(m, map, cfg, req) ==
  LET denied == bearerAuth(getToken(cfg), req)
      reply(status, kind, new) == [status |-> status, served |-> kind, new |-> new]
  IN IF denied # 0 THEN reply(denied, "none", FALSE)
     ELSE IF m.isShuttingDown THEN reply(Unavailable, "none", FALSE)
     ELSE IF req.route = "/mcp"
          THEN IF ResolvesStreamable(map, req) THEN reply(Served, "streamable", FALSE)
               ELSE IF Registered(map, req.sid) THEN reply(BadRequest, "none", FALSE)
               ELSE IF IsInitialize(req) THEN reply(Served, "streamable", TRUE)
               ELSE reply(BadRequest, "none", FALSE)
     ELSE IF req.route = "/sse" THEN reply(Served, "sse", TRUE)
     ELSE IF ResolvesSse(map, req) THEN reply(Served, "sse", FALSE)
          ELSE reply(BadRequest, "none", FALSE)

\* express runs the chain on the request: bearerAuth, then the route handler, which
\* registers a new transport under a fresh session id (setupSseConnection,
\* onsessioninitialized) or hands the request to an existing one
HttpHandle ==
  /\ http.stage = "received"
  /\ LET a == RouteAnswer(manager, mcpTransports, config, http)
         f == CHOOSE s \in FreshSids : \A t \in FreshSids : s <= t
     IN /\ http' = [http EXCEPT !.stage = "answered", !.status = a.status,
                                !.served = a.served, !.newSid = IF a.new THEN f ELSE 0]
        /\ mcpTransports' = IF a.new THEN [mcpTransports EXCEPT ![f] = a.served]
                            ELSE mcpTransports
  /\ UNCHANGED <<manager, servers, mgrOps, clock, applyVars, toolVars, authVars, fuzzyVars>>

\* the response is sent
HttpClose ==
  /\ http.stage = "answered"
  /\ http' = [NoHttp EXCEPT !.seq = http.seq]
  /\ UNCHANGED <<manager, servers, mgrOps, mcpTransports, clock, applyVars, toolVars, authVars, fuzzyVars>>

\* the connection of a session closes: res.on("close") of an SSE connection,
\* transport.onclose of a StreamableHTTP transport
SessionClose(sid) ==
  /\ Registered(mcpTransports, sid)
  /\ mcpTransports' = [mcpTransports EXCEPT ![sid] = "closed"]
  /\ UNCHANGED <<manager, servers, mgrOps, http, clock, applyVars, toolVars, authVars, fuzzyVars>>

\* the manager after construction with the default settings, no request
MgrAtRest ==
  /\ manager = NewManager
  /\ servers = [g \in ServerIds |-> NoServer]
  /\ mgrOps = [o \in MgrOpIds |-> IdleOp]
  /\ mcpTransports = [s \in SessionIds |-> "none"]
  /\ http = NoHttp
  /\ clock = 0

----------------------------------------------------------------------------
(* Fuzzy-anchor diff-edit (src/unnamed/part_022): normalizeText, getAnchors, *)
(* the anchor loop of the handler and the block start.  match() is the      *)
(* fuzzy search of the diff-match-patch dependency: its result for a        *)
(* pattern that is not at offset 0 is left open.                            *)

AnchorLen == 32

BOM == "U+FEFF"

Max(a, b) == IF a > b THEN a ELSE b

\* str.replace(/^﻿/, "").replace(/\r\n?/g, "\n")
normalizeText(str) ==
  LET s == IF Len(str) > 0 /\ str[1] = BOM THEN Tail(str) ELSE str
      kept == SelectSeq(Indices(s), LAMBDA i : ~(s[i] = LF /\ i > 1 /\ s[i - 1] = CR))
  IN [k \in 1..Len(kept) |-> IF s[kept[k]] = CR THEN LF ELSE s[kept[k]]]

\* text.slice(from, to) with 0 <= from <= to
Slice(text, from, to) == SubSeq(text, from + 1, Min(to, Len(text)))

Anchor(anchor, offset, label) == [anchor |-> anchor, offset |-> offset, label |-> label]

getAnchors(text) ==
  LET len == Len(text)
      midStart == (len - AnchorLen) \div 2
  IN IF len <= AnchorLen THEN <<Anchor(text, 0, "head")>>
     ELSE <<Anchor(Slice(text, 0, AnchorLen), 0, "head"),
            Anchor(Slice(text, midStart, midStart + AnchorLen), midStart, "mid"),
            Anchor(Slice(text, len - AnchorLen, len), len - AnchorLen, "tail")>>

\* the values match(fileContent, anchor, 0) can return: -1 for an empty text, 0 when
\* the text is the pattern or begins with it, otherwise whatever the fuzzy search finds
MatchResults(fileContent, anchor) ==
  IF fileContent = anchor THEN {0}
  ELSE IF Len(fileContent) = 0 THEN {-1}
  ELSE IF StartsWith(fileContent, anchor) THEN {0}
  ELSE -1..(Len(fileContent) - 1)

NoBest == [idx |-> -1, anchor |-> <<>>, offset |-> 0, label |-> ""]

\* variant: the block start is not clamped
BlockStartUnclamped(best, fileLength, originalLength) == best.idx - best.offset

\* Math.max(0, Math.min(best.idx - best.offset, fileContent.length - normOriginal.length))
BlockStartOf(best, fileLength, originalLength) ==
  Max(0, Min(best.idx - best.offset, fileLength - originalLength))

\* the handler at rest: stage "input" with the arguments, then "loop" over the anchors,
\* then "matched" and "located", or "nomatch", or "empty" for an empty file
NoFuzzy ==
  [stage |-> "none", original |-> <<>>, fileContent |-> <<>>, anchors |-> <<>>,
   results |-> <<>>, best |-> NoBest, blockStart |-> 0]

\* the handler up to the loop: both texts are normalized, an empty file is written at
\* once, otherwise the anchors of the original are extracted
FuzzyStart ==
  /\ fuzzy.stage = "input"
  /\ LET fileContent == normalizeText(fuzzy.fileContent)
         normOriginal == normalizeText(fuzzy.original)
     IN fuzzy' = IF Len(fileContent) = 0
                 THEN [fuzzy EXCEPT !.stage = "empty", !.fileContent = fileContent,
                                    !.original = normOriginal]
                 ELSE [fuzzy EXCEPT !.stage = "loop", !.fileContent = fileContent,
                                    !.original = normOriginal,
                                    !.anchors = getAnchors(normOriginal)]
  /\ UNCHANGED <<applyVars, toolVars, authVars, mgrVars>>

\* one turn of `for (const { anchor, offset, label } of anchors)`: an empty anchor is
\* skipped, the first anchor that match() finds ends the loop; results keeps what
\* match() returned for each anchor (-1 for a skipped one)
TryAnchor(idx) ==
  /\ fuzzy.stage = "loop"
  /\ Len(fuzzy.results) < Len(fuzzy.anchors)
  /\ LET a == fuzzy.anchors[Len(fuzzy.results) + 1]
     IN /\ idx \in (IF Len(a.anchor) = 0 THEN {-1} ELSE MatchResults(fuzzy.fileContent, a.anchor))
        /\ fuzzy' = IF idx # -1
                    THEN [fuzzy EXCEPT !.stage = "matched", !.results = Append(@, idx),
                                       !.best = [idx |-> idx, anchor |-> a.anchor,
                                                 offset |-> a.offset, label |-> a.label]]
                    ELSE [fuzzy EXCEPT !.results = Append(@, idx)]
  /\ UNCHANGED <<applyVars, toolVars, authVars, mgrVars>>

\* `if (best.idx === -1)` after the loop: no anchor was found
NoAnchorFound ==
  /\ fuzzy.stage = "loop"
  /\ Len(fuzzy.results) = Len(fuzzy.anchors)
  /\ fuzzy' = [fuzzy EXCEPT !.stage = "nomatch"]
  /\ UNCHANGED <<applyVars, toolVars, authVars, mgrVars>>

\* "Compute block start, clamp within [0, fileLength]"
ComputeBlockStart ==
  /\ fuzzy.stage = "matched"
  /\ fuzzy' = [fuzzy EXCEPT !.stage = "located",
                 !.blockStart = BlockStartOf(fuzzy.best, Len(fuzzy.fileContent),
                                             Len(fuzzy.original))]
  /\ UNCHANGED <<applyVars, toolVars, authVars, mgrVars>>

FuzzyAtRest == fuzzy = NoFuzzy

\* the server with the default settings (constants.ts) and no request
AuthAtRest ==
  /\ config = [enableAuth |-> FALSE, authToken |-> TK_none]
  /\ request = NoRequest

ToolsAtRest ==
  /\ files = [p \in VaultPaths |-> NoFile]
  /\ rollbackStore = [p \in VaultPaths |-> NoEntry]
  /\ calls = [c \in CallIds |-> IdleCall]
  /\ hist = [p \in VaultPaths |-> <<>>]
  /\ started = 0

ApplyAtRest ==
  /\ path = P_n
  /\ udiff = <<>>
  /\ originalContent = <<>>
  /\ result = NoResult
  /\ again = NoResult

\* the plugin after load: an empty rollback store, no call in flight, some vault
Init ==
  /\ ApplyAtRest
  /\ AuthAtRest
  /\ MgrAtRest
  /\ FuzzyAtRest
  /\ files \in {[p \in VaultPaths |-> IF p = P_n THEN n ELSE m] :
                  n \in {NoFile} \cup {FileOf(c) : c \in InitContents},
                  m \in {Folder, FileOf(<<"a">>)}}
  /\ rollbackStore = [p \in VaultPaths |-> NoEntry]
  /\ calls = [c \in CallIds |-> IdleCall]
  /\ hist = [p \in VaultPaths |-> <<>>]
  /\ started = 0

InitApply ==
  /\ ToolsAtRest
  /\ AuthAtRest
  /\ MgrAtRest
  /\ FuzzyAtRest
  /\ path \in PathSet
  /\ udiff \in DiffSet
  /\ originalContent \in ContentSet
  /\ result = NoResult
  /\ again = NoResult

\* applyDiff under test on the hunk-body inputs
InitBody ==
  /\ ToolsAtRest
  /\ AuthAtRest
  /\ MgrAtRest
  /\ FuzzyAtRest
  /\ path = P_n
  /\ udiff \in BodyDiffSet
  /\ originalContent \in BodyContentSet
  /\ result = NoResult
  /\ again = NoResult

\* a handler resumes after one of its awaits
Step(c) ==
  \/ SaveRollbackRead(c)
  \/ SaveRollbackStore(c)
  \/ RestoreModify(c)
  \/ RestoreDelete(c)
  \/ DiffEditRead(c)
  \/ DiffEditWrite(c)
  \/ UpsertProcess(c)
  \/ UpsertCreate(c)
  \/ StructuredCreate(c)
  \/ StructuredRead(c)
  \/ StructuredCompute(c)
  \/ StructuredModify(c)
  \/ Return(c)

\* a tool call arrives
Start(c) ==
  \/ \E p \in ToolPaths, d \in ToolDiffs : DiffEditStart(c, p, d)
  \/ \E p \in ToolPaths, t \in UpsertContents : UpsertStart(c, p, t)
  \/ \E p \in ToolPaths : RollbackEditStart(c, p)
  \/ \E v \in StructuredValues : StructuredStart(c, v)

\* calls arrive at any time and interleave at their awaits, and the vault changes under
\* them
Next ==
  \/ \E c \in CallIds : (started < MaxRaceOps /\ Start(c)) \/ Step(c)
  \/ \E p \in VaultPaths : VaultDelete(p)

\* calls arrive one after the other: no call starts while another is in flight
NextSeq == \E c \in CallIds : (AllIdle /\ Start(c)) \/ Step(c)

\* calls arrive one after the other until the last one, which may start while the call
\* before it is in flight
NextStore ==
  \/ \E c \in CallIds :
       ((AllIdle \/ started >= MaxStoreOps - 1) /\ started < MaxStoreOps /\ Start(c)) \/ Step(c)
  \/ \E p \in VaultPaths : VaultDelete(p)

NextApply == Apply \/ Reapply

\* requests sent to the routes: route, method, session id, initialize body
RequestShapes ==
  {<<"/mcp", "POST", 0, TRUE>>, <<"/mcp", "GET", 0, FALSE>>,
   <<"/mcp", "POST", 1, FALSE>>, <<"/mcp", "POST", 2, TRUE>>,
   <<"/sse", "GET", 0, FALSE>>,
   <<"/messages", "POST", 1, FALSE>>, <<"/messages", "POST", 2, FALSE>>}

\* Authorization header of the requests: "Bearer tk"
H_good == <<"B", "e", "a", "r", "e", "r", " ">> \o TK_good

\* the steps of the start(), stop() and restart() calls in flight
MgrStep(o) ==
  \/ TransportsClosed(o) \/ RefsCleared(o) \/ StopFinally(o) \/ StopResolved(o)
  \/ RestartStart(o) \/ StartCreate(o) \/ StartRoutes(o) \/ StartListening(o)
  \/ MgrReturn(o)

\* a call of start(), stop() or restart() arrives
MgrCall(o) == StartCall(o) \/ StopCall(o) \/ RestartCall(o)

MgrAllIdle == \A o \in MgrOpIds : mgrOps[o].pc = "idle"

InitServer == ApplyAtRest /\ ToolsAtRest /\ AuthAtRest /\ MgrAtRest /\ FuzzyAtRest

\* the manager alone: start(), stop() and restart() are called at any time and
\* interleave at their awaits
NextLifecycle == \E o \in MgrOpIds : MgrCall(o) \/ MgrStep(o)

\* the manager in service: start(), stop() and restart() are called one after the other,
\* updateConfig() is called and requests arrive at any time
NextServer ==
  \/ \E o \in MgrOpIds : (MgrAllIdle /\ MgrCall(o)) \/ MgrStep(o)
  \/ \E enable \in BOOLEAN : UpdateConfig(enable, TK_good)
  \/ \E g \in ServerIds, r \in RequestShapes, hasHeader \in BOOLEAN :
       HttpReceive(g, r[1], r[2], r[3], r[4], hasHeader, IF hasHeader THEN H_good ELSE <<>>)
  \/ HttpHandle
  \/ HttpClose
  \/ \E sid \in SessionIds : SessionClose(sid)

\* texts for the fuzzy-anchor variant: n characters that repeat with period 7, from a
\* given phase
FuzzyLetters == <<"a", "b", "c", "d", "e", "f", "g">>
FuzzyText(n, phase) == [i \in 1..n |-> FuzzyLetters[((i + phase) % 7) + 1]]

\* originals of 2, 32, 33 and 40 characters, one with a byte order mark and CR LF
FuzzyOriginals ==
  {FuzzyText(2, 0), FuzzyText(AnchorLen, 0), FuzzyText(AnchorLen + 1, 0),
   FuzzyText(AnchorLen + 8, 0), <<BOM, "a", CR, LF, "b">>, <<BOM>>}

\* file contents: empty, shorter than the long originals, an original after two other
\* characters, and one with a lone CR
FuzzyFiles ==
  {<<>>, FuzzyText(5, 3), <<"x", "y">> \o FuzzyText(AnchorLen + 8, 0), <<"a", CR, "b">>}

\* the fuzzy-anchor handler under test on one pair of arguments
InitFuzzy ==
  /\ ApplyAtRest /\ ToolsAtRest /\ AuthAtRest /\ MgrAtRest
  /\ fuzzy \in {[NoFuzzy EXCEPT !.stage = "input", !.original = o, !.fileContent = f] :
                  o \in FuzzyOriginals, f \in FuzzyFiles}

NextFuzzy ==
  \/ FuzzyStart
  \/ \E idx \in -1..(AnchorLen + 10) : TryAnchor(idx)
  \/ NoAnchorFound
  \/ ComputeBlockStart

\* the server: settings change between requests, requests are answered one by one
InitAuth == ApplyAtRest /\ ToolsAtRest /\ AuthAtRest /\ MgrAtRest /\ FuzzyAtRest

NextAuth ==
  \/ \E enable \in BOOLEAN, token \in TokenSet : Configure(enable, token)
  \/ \E route \in Routes, header \in AuthHeaderSet : Receive(route, TRUE, header)
  \/ \E route \in Routes : Receive(route, FALSE, <<>>)
  \/ RunChain
  \/ Close

Spec == Init /\ [][Next]_vars
SpecSeq == Init /\ [][NextSeq]_vars
SpecStore == Init /\ [][NextStore]_vars

SpecApply == InitApply /\ [][NextApply]_vars
SpecBody == InitBody /\ [][NextApply]_vars
SpecServer == InitServer /\ [][NextServer]_vars
SpecLifecycle == InitServer /\ [][NextLifecycle]_vars

SpecFuzzy == InitFuzzy /\ [][NextFuzzy]_vars

SpecAuth == InitAuth /\ [][NextAuth]_vars

----------------------------------------------------------------------------
(* Properties of applyDiff (specification SpecApply)                       *)

\* the lines of the diff under test as applyDiff sees them
InputLines == SplitLines(StripFences(udiff))

\* offsets at which sub occurs in s
Occurrences(s, sub) == {i \in 0..Len(s) : MatchAt(s, sub, i)}

\* s with the Len(sub) characters at offset i replaced by rep, everything else kept
ReplacedAt(s, i, sub, rep) == SubSeq(s, 1, i) \o rep \o SubSeq(s, i + Len(sub) + 1, Len(s))

\* applyDiff ran and reached exactly one hunk
SingleHunkRun == result.err \in {"none", "hunkapply"} /\ Len(result.hunks) = 1

\* C1 as stated: whenever the search block of a single-hunk diff occurs exactly once in
\* the original content C, the call succeeds and the updated content is C with that
\* occurrence replaced by the replace block, all other characters of C (carriage
\* returns included) unchanged.
C1_Original ==
  (SingleHunkRun /\ Cardinality(Occurrences(originalContent, result.hunks[1].searchBlock)) = 1)
    => LET h == result.hunks[1]
           i == CHOOSE k \in Occurrences(originalContent, h.searchBlock) : TRUE
       IN result.ok /\ result.updated = ReplacedAt(originalContent, i, h.searchBlock, h.replaceBlock)

\* C1 amended: with N(C) the original content after every CR LF pair is turned into LF,
\* whenever the search block of a single-hunk diff occurs exactly once in N(C), the call
\* succeeds and the updated content is N(C) with that occurrence replaced by the replace
\* block, all other characters of N(C) unchanged.
C1_ReplacesOnlyTheMatch ==
  LET n == NormalizeNewlines(originalContent) IN
  (SingleHunkRun /\ Cardinality(Occurrences(n, result.hunks[1].searchBlock)) = 1)
    => LET h == result.hunks[1]
           i == CHOOSE k \in Occurrences(n, h.searchBlock) : TRUE
       IN result.ok /\ result.updated = ReplacedAt(n, i, h.searchBlock, h.replaceBlock)

\* C1 witness: a single hunk matched exactly once, away from offset 0, in a content with a
\* CR LF pair, and the replacement changes the length of the content
C1_Witness ==
  /\ SingleHunkRun /\ result.ok
  /\ Cardinality(Occurrences(NormalizeNewlines(originalContent), result.hunks[1].searchBlock)) = 1
  /\ result.hunks[1].idx > 0
  /\ Len(result.hunks[1].searchBlock) # Len(result.hunks[1].replaceBlock)

\* C2 as stated: the diff text returned by applyDiff, applied again to the same path and
\* original content, is accepted and yields the same updated content.
C2_RoundTrip == again.err # "pending" => (again.ok /\ again.updated = result.updated)

\* C3 as stated: every hunk after the first is located at or after the end of the
\* previous hunk's replacement in the working buffer.
C3_OffsetsAdvance ==
  \A k \in 2..Len(result.hunks) :
    result.hunks[k].idx >= 0 =>
      result.hunks[k].idx >= result.hunks[k - 1].idx + Len(result.hunks[k - 1].replaceBlock)

\* a path with at most one leading a/ or b/ removed
StripOne(p) == IF Len(p) >= 2 /\ p[1] \in {"a", "b"} /\ p[2] = "/" THEN SubSeq(p, 3, Len(p)) ELSE p

\* applyDiff went past the header and path checks
PathAccepted == result.err \notin {"pending", "header", "twofiles", "pathmismatch"}

\* C8 as stated: a diff is accepted for target path T only when its header path equals T
\* once at most one leading a/ or b/ is removed from each side.
C8_SingleStrip ==
  PathAccepted =>
    LET h == HeaderPath(InputLines[1])
    IN {h, StripOne(h)} \cap {path, StripOne(path)} # {}

\* text s begins with the whole lines of t
BeginsWithLines(s, t) == StartsWith(s, t) /\ (Len(s) = Len(t) \/ s[Len(t) + 1] = LF)

\* the first two lines of the diff under test are l0 and l1, inside a fence or bare
HeaderLinesAre(l0, l1) ==
  LET t == l0 \o <<LF>> \o l1
  IN BeginsWithLines(udiff, t) \/ BeginsWithLines(udiff, FenceOpen \o <<LF>> \o t)

PathMismatchErrors == {"twofiles", "pathmismatch"}

\* nothing is returned by a call that threw
NothingProduced == ~result.ok /\ result.diff = <<>>

\* a line starting with "---" after the header pair
DashLineAfterHeaders(lines) == \E i \in 3..Len(lines) : StartsWith(lines[i], DASH3)

\* a line starting with "---" after the first hunk header
DashLineAfterFirstHunk(lines) ==
  \E i \in 3..Len(lines) :
    StartsWith(lines[i], DASH3) /\ \E j \in 3..(i - 1) : IsHunkHeader(lines[j])

\* C9: a diff whose header lines are "--- a.md" and "+++ b.md" is rejected with the
\* path-mismatch error for every target path, original content and body, and nothing is
\* produced.
C9_TwoFilesRejected ==
  (result.err # "pending" /\ HeaderLinesAre(HP_ab[1], HP_ab[2]))
    => (result.err \in PathMismatchErrors /\ NothingProduced /\ result.hunks = <<>>)

\* C9 witness: such a diff, with a body that holds a second "---" line, was rejected
C9_Witness ==
  /\ result.err = "twofiles"
  /\ HeaderLinesAre(HP_ab[1], HP_ab[2])
  /\ LET lines == InputLines IN DashLineAfterHeaders(lines)

\* C10 as stated: a diff with a line starting with "---" after its first hunk is rejected
\* with the multi-file error, whatever its header paths and hunks.
C10_Original ==
  result.err \notin {"pending", "multifile"} =>
    LET lines == InputLines IN ~DashLineAfterFirstHunk(lines)

\* the header lines are well-formed and name one file, the target
HeadersNameTarget(lines) ==
  /\ HeadersPresent(lines)
  /\ stripPrefix(HeaderPath(lines[1])) = stripPrefix(HeaderPath(lines[2]))
  /\ stripPrefix(HeaderPath(lines[1])) = stripPrefix(path)

\* C10 amended: a diff with a line starting with "---" after the header pair is always
\* rejected and nothing is produced; the error is the multi-file error when the header
\* lines are well-formed and name the target path, and the header or path-mismatch error
\* otherwise.
C10_SecondFileRejected ==
  result.err # "pending" =>
    LET lines == InputLines IN
    DashLineAfterHeaders(lines)
      => /\ NothingProduced /\ result.hunks = <<>>
         /\ HeadersNameTarget(lines) => result.err = "multifile"
         /\ ~HeadersNameTarget(lines) => result.err \in {"header"} \cup PathMismatchErrors

\* C10 witness: accepted headers, a hunk, then a second "---" line
C10_Witness ==
  /\ result.err = "multifile"
  /\ LET lines == InputLines IN HeadersNameTarget(lines) /\ DashLineAfterFirstHunk(lines)

----------------------------------------------------------------------------
(* Properties of the tool handlers when calls do not overlap (SpecSeq)     *)

\* a call of the given tool has finished and its result is about to be returned
Done(c, tool) == calls[c].pc = "done" /\ calls[c].tool = tool /\ calls[c].path \in VaultPaths

\* a completed call that changed an existing file: diff-edit, upsert, structured update
MutatingTools == {"diffedit", "upsert", "structured"}
IsMutation(e) == e.ok /\ e.tool \in MutatingTools /\ e.pre.kind = "file"
IsRestore(e) == e.ok /\ e.tool = "rollback"

\* the n-th last completed call on path p
Back(p, n) == hist[p][Len(hist[p]) - n + 1]

\* C4: a diff-edit call one of whose hunks cannot be located returns an error, writes
\* nothing, and leaves the file as it was before the call.
C4_FailedHunkWritesNothing ==
  \A c \in CallIds :
    (Done(c, "diffedit") /\ calls[c].err = "hunkapply")
      => /\ calls[c].result = "error"
         /\ ~calls[c].wrote
         /\ files[calls[c].path] = calls[c].preFile

\* C4 witness: the second hunk of a diff failed after its first hunk had been applied to
\* the working buffer
C4_Witness ==
  \E c \in CallIds :
    /\ Done(c, "diffedit") /\ calls[c].err = "hunkapply"
    /\ LET r == applyDiff(calls[c].path, calls[c].arg, calls[c].fileContent)
       IN Len(r.hunks) = 2 /\ r.updated # calls[c].fileContent
    /\ files[calls[c].path] = calls[c].preFile

\* C5: right after a successful mutating call on a path, a restore of that path succeeds
\* and the file holds the content it had before that call; right after a successful
\* restore, another restore fails with "no rollback available" and writes nothing.
C5_RestoreUndoesLastMutation ==
  \A c \in CallIds :
    (Done(c, "rollback") /\ hist[calls[c].path] # <<>>)
      => LET p == calls[c].path IN
         /\ IsMutation(Back(p, 1)) => (calls[c].result = "ok" /\ files[p] = Back(p, 1).pre)
         /\ IsRestore(Back(p, 1)) =>
              /\ calls[c].result = "error" /\ calls[c].err = "norollback"
              /\ ~calls[c].wrote /\ files[p] = calls[c].preFile

\* C5 witness: mutation, restore that changed the file back, then a restore that failed
C5_Witness ==
  \E c \in CallIds :
    /\ Done(c, "rollback") /\ calls[c].err = "norollback"
    /\ Len(hist[calls[c].path]) >= 2
    /\ IsRestore(Back(calls[c].path, 1))
    /\ IsMutation(Back(calls[c].path, 2))
    /\ files[calls[c].path] = Back(calls[c].path, 2).pre

\* C6: the store holds one entry per path, without history: after two successive
\* mutations M1, M2 of a path the entry is the content from just before M2, the first
\* restore brings back that content and the next restore fails.
C6_OnlyLastSnapshotSurvives ==
  \A p \in VaultPaths :
    /\ (AllIdle /\ Len(hist[p]) >= 2 /\ IsMutation(Back(p, 1)) /\ IsMutation(Back(p, 2)))
         => rollbackStore[p] = RollbackEntry(Back(p, 1).pre.data, rollbackStore[p].reason)
    /\ \A c \in CallIds :
         (Done(c, "rollback") /\ calls[c].path = p) =>
           /\ (Len(hist[p]) >= 2 /\ IsMutation(Back(p, 1)) /\ IsMutation(Back(p, 2)))
                => (calls[c].result = "ok" /\ files[p] = Back(p, 1).pre)
           /\ (Len(hist[p]) >= 3 /\ IsRestore(Back(p, 1)) /\ IsMutation(Back(p, 2))
                 /\ IsMutation(Back(p, 3)))
                => (calls[c].result = "error" /\ files[p] = Back(p, 2).pre)

\* C6 witness: M1 and M2 started from different contents, a restore brought back the
\* content before M2, and the second restore has just failed
C6_Witness ==
  \E c \in CallIds :
    LET p == calls[c].path IN
    /\ Done(c, "rollback") /\ calls[c].result = "error"
    /\ Len(hist[p]) >= 3
    /\ IsRestore(Back(p, 1)) /\ IsMutation(Back(p, 2)) /\ IsMutation(Back(p, 3))
    /\ Back(p, 2).pre # Back(p, 3).pre
    /\ files[p] = Back(p, 2).pre

\* C7 as stated: a diff-edit call that ends in an error leaves the file and the rollback
\* entry of its path as they were before the call.
C7_FailedEditKeepsRollback ==
  \A c \in CallIds :
    (Done(c, "diffedit") /\ calls[c].result = "error")
      => /\ files[calls[c].path] = calls[c].preFile
         /\ rollbackStore[calls[c].path] = calls[c].preEntry

\* old followed by a line feed unless old ends with one, followed by content
OnOwnLine(old, content) ==
  old \o (IF Len(old) > 0 /\ old[Len(old)] = LF THEN <<>> ELSE <<LF>>) \o content

\* a successful upsert call on a path that held a file when the call started
UpsertAppended(c) == Done(c, "upsert") /\ calls[c].result = "ok" /\ calls[c].preFile.kind = "file"

\* C18: upsert on an existing file only appends: the new content is the old content,
\* then one line feed if and only if the old content does not end with one, then the
\* supplied content; the old content is a prefix of the new content, and the rollback
\* entry of the path holds exactly the old content.
C18_UpsertOnlyAppends ==
  \A c \in CallIds :
    UpsertAppended(c) =>
      LET p == calls[c].path
          old == calls[c].preFile.data
      IN /\ files[p] = FileOf(OnOwnLine(old, calls[c].arg))
         /\ StartsWith(files[p].data, old)
         /\ rollbackStore[p] = RollbackEntry(old, "upsert-file")

\* C18 witness: an upsert on a file that ended with a line feed, over an older rollback
\* entry of another content
C18_Witness ==
  \E c \in CallIds :
    /\ UpsertAppended(c)
    /\ EndsWith(calls[c].preFile.data, <<LF>>)
    /\ calls[c].preEntry.has /\ calls[c].preEntry.content # calls[c].preFile.data
    /\ files[calls[c].path].data = calls[c].preFile.data \o calls[c].arg

----------------------------------------------------------------------------
(* Properties of hunk parsing (specifications SpecBody and SpecApply)      *)

\* the lines after the header pair are one hunk header followed by body lines that each
\* start with a space, "-" or "+"
SingleHunkBody(lines) ==
  /\ Len(lines) >= 4
  /\ IsHunkHeader(lines[3])
  /\ \A i \in 4..Len(lines) : Len(lines[i]) > 0 /\ lines[i][1] \in {" ", "-", "+"}

\* the texts of the body lines with the given first characters, joined by line feeds
BlockOf(lines, kinds) == Join(SelectLines(SubSeq(lines, 4, Len(lines)), kinds), <<LF>>)

\* C11 as stated: every hunk-body line whose first character is "-" is a Removed line
\* whose text is the rest of the line, also when that text begins with "--": a diff with
\* accepted headers and one hunk of body lines is parsed into the search block of its
\* context and removed texts and the replace block of its context and added texts, and
\* is applied whenever the search block occurs in the content.
C11_DashLineIsRemoval ==
  result.err # "pending" =>
    LET lines == InputLines IN
    (HeadersNameTarget(lines) /\ SingleHunkBody(lines))
      => /\ result.err \in {"none", "hunkapply"}
         /\ Len(result.hunks) = 1
         /\ result.hunks[1].searchBlock = BlockOf(lines, {" ", "-"})
         /\ result.hunks[1].replaceBlock = BlockOf(lines, {" ", "+"})
         /\ result.ok <=> Occurrences(NormalizeNewlines(originalContent),
                                      BlockOf(lines, {" ", "-"})) # {}

RECURSIVE TextsWithEmpty(_, _)
\* the texts of the hunk lines whose first character is in kinds, an empty line counting
\* as a line of every kind with empty text
TextsWithEmpty(hunkLines, kinds) ==
  IF Len(hunkLines) = 0 THEN <<>>
  ELSE LET h == Head(hunkLines)
           rest == TextsWithEmpty(Tail(hunkLines), kinds)
       IN IF Len(h) = 0 THEN <<h>> \o rest
          ELSE IF h[1] \in kinds THEN <<Tail(h)>> \o rest
          ELSE rest

\* one hunk whose body lines are empty or start with a space, "-" or "+", with an empty
\* line that is not the last line, and no line that starts with "---"
HunkSpansEmptyLine(lines) ==
  /\ Len(lines) >= 5
  /\ IsHunkHeader(lines[3])
  /\ \A i \in 4..Len(lines) :
       /\ Len(lines[i]) > 0 => lines[i][1] \in {" ", "-", "+"}
       /\ ~StartsWith(lines[i], DASH3)
  /\ \E i \in 4..(Len(lines) - 1) : lines[i] = <<>>
  /\ lines[Len(lines)] # <<>>

\* C12 as stated: a completely empty line inside a hunk body is a Context line with empty
\* text: it puts an empty line into both the search block and the replace block at its
\* position, and the hunk applies exactly when that search block occurs in the content.
C12_EmptyLineIsContext ==
  result.err # "pending" =>
    LET lines == InputLines IN
    (HeadersNameTarget(lines) /\ HunkSpansEmptyLine(lines))
      => LET hunkLines == SubSeq(lines, 4, Len(lines))
             search == Join(TextsWithEmpty(hunkLines, {" ", "-"}), <<LF>>)
             replace == Join(TextsWithEmpty(hunkLines, {" ", "+"}), <<LF>>)
         IN /\ Len(result.hunks) = 1
            /\ result.hunks[1].searchBlock = search
            /\ result.hunks[1].replaceBlock = replace
            /\ result.ok <=> Occurrences(NormalizeNewlines(originalContent), search) # {}

\* line 3 starts with "@@" and the lines after it each start with a space, "-" or "+"
\* and not with "---": the shape of the example in the tool description
HunkAfterAtSigns(lines) ==
  /\ Len(lines) >= 4
  /\ StartsWith(lines[3], AT2)
  /\ \A i \in 4..Len(lines) :
       Len(lines[i]) > 0 /\ lines[i][1] \in {" ", "-", "+"} /\ ~StartsWith(lines[i], DASH3)

\* C13 as stated: a hunk is introduced by any line that starts with "@@", also by the
\* bare "@@" of the example in the tool description: with accepted headers such a diff is
\* not refused for its hunk header, its one hunk is reached, and it is applied when its
\* search block occurs in the content.
C13_BareHunkHeader ==
  result.err # "pending" =>
    LET lines == InputLines IN
    (HeadersNameTarget(lines) /\ HunkAfterAtSigns(lines))
      => /\ result.err # "hunkheader"
         /\ Len(result.hunks) = 1
         /\ result.ok <=> Occurrences(NormalizeNewlines(originalContent),
                                      BlockOf(lines, {" ", "-"})) # {}

\* the diff text ends with a line feed: its last line is empty
EndsWithLineBreak(lines) == Len(lines) >= 1 /\ lines[Len(lines)] = <<>>

\* index of the last line that belongs to the text proper
LastTextLine(lines) == IF EndsWithLineBreak(lines) THEN Len(lines) - 1 ELSE Len(lines)

\* one hunk made only of Added lines
OnlyAddedHunk(lines) ==
  /\ LastTextLine(lines) >= 4
  /\ IsHunkHeader(lines[3])
  /\ \A i \in 4..LastTextLine(lines) : Len(lines[i]) > 0 /\ lines[i][1] = "+"

\* the added texts joined by line feeds
AddedText(lines) == Join(SelectLines(SubSeq(lines, 4, LastTextLine(lines)), {"+"}), <<LF>>)

\* C14 as stated: when the original content is empty and the diff has one hunk made only
\* of Added lines, applyDiff succeeds and the updated content is the added text (with
\* the final line feed when the diff text ends with one), whether or not the diff text
\* ends with a line break.
C14_CreatesFromEmpty ==
  result.err # "pending" =>
    LET lines == InputLines IN
    (originalContent = <<>> /\ HeadersNameTarget(lines) /\ OnlyAddedHunk(lines))
      => /\ result.ok
         /\ result.updated \in {AddedText(lines), AddedText(lines) \o <<LF>>}

\* a header line: the marker, at least one blank, then a path
HeaderShape(line, marker) ==
  /\ StartsWith(line, marker)
  /\ Len(line) > Len(marker)
  /\ IsSpace(line[Len(marker) + 1])
  /\ SkipSpace(line, Len(marker) + 1) <= Len(line)

\* C17 as stated: applyDiff fails with the missing-header error unless the diff has two
\* lines, line 0 of the shape "--- <path>" and line 1 of the shape "+++ <path>": whatever
\* gets past the header test, to the path comparison or further, has both.
C17_HeaderShapes ==
  result.err \notin {"pending", "header"} =>
    LET lines == InputLines
    IN Len(lines) >= 2 /\ HeaderShape(lines[1], DASH3) /\ HeaderShape(lines[2], PLUS3)

\* the positions of the hunk headers of a diff, in document order
HunkHeads(lines) == SelectSeq(Indices(lines), LAMBDA i : i >= 3 /\ IsHunkHeader(lines[i]))

\* the body of the k-th hunk: the lines after its header up to the next header or the end
HunkBody(lines, heads, k) ==
  SubSeq(lines, heads[k] + 1, (IF k < Len(heads) THEN heads[k + 1] ELSE Len(lines) + 1) - 1)

RECURSIVE WorkingAfter(_, _, _)
\* the working buffer after the first k hunks: each hunk replaces the Len(searchBlock)
\* characters at its offset in the buffer the hunks before it produced
WorkingAfter(start, hunks, k) ==
  IF k = 0 THEN start
  ELSE ReplacedAt(WorkingAfter(start, hunks, k - 1), hunks[k].idx,
                  hunks[k].searchBlock, hunks[k].replaceBlock)

\* C20: for a diff with hunks h1..hn that is applied, the hunks reached are exactly the
\* hunks of the diff in document order, each is located in the buffer the hunks before
\* it produced, and the updated content is the result of replacing, hunk after hunk, the
\* search block at that offset by the replace block: none is skipped, reordered or
\* applied twice.
C20_HunksInDocumentOrder ==
  result.ok =>
    LET lines == InputLines
        heads == HunkHeads(lines)
        start == NormalizeNewlines(originalContent)
    IN /\ Len(result.hunks) = Len(heads)
       /\ \A k \in 1..Len(heads) :
            /\ result.hunks[k].searchBlock = searchBlockOf(HunkBody(lines, heads, k))
            /\ result.hunks[k].replaceBlock = replaceBlockOf(HunkBody(lines, heads, k))
            /\ MatchAt(WorkingAfter(start, result.hunks, k - 1),
                       result.hunks[k].searchBlock, result.hunks[k].idx)
       /\ result.updated = WorkingAfter(start, result.hunks, Len(heads))

\* C20 witness: two hunks were applied, the second at an offset where only the buffer
\* produced by the first holds its search block
C20_Witness ==
  /\ result.ok /\ Len(result.hunks) = 2
  /\ result.hunks[1].searchBlock # result.hunks[1].replaceBlock
  /\ ~MatchAt(NormalizeNewlines(originalContent), result.hunks[2].searchBlock, result.hunks[2].idx)
  /\ result.updated # NormalizeNewlines(originalContent)

----------------------------------------------------------------------------
(* Properties of the tool handlers when calls interleave (Spec)            *)

\* C15 as stated: every failure inside the diff-edit handler, a failing file read and a
\* failing rollback save included, is returned as a result with isError true: the
\* handler's promise never rejects.
C15_DiffEditNeverRejects ==
  \A c \in CallIds :
    (calls[c].pc = "done" /\ calls[c].tool = "diffedit") => calls[c].result \in {"ok", "error"}

\* the patch a diff-edit call computes from its own read
OwnPatch(call) == applyDiff(call.path, call.arg, call.fileContent)

\* C16: nothing in the handler compares the file with what the call read: whatever the
\* file holds by the time of the write, a diff-edit call whose patch applies to its own
\* read returns success and the file becomes the result of that patch alone, so of two
\* overlapping calls that read the same content only the edit of the last writer stays.
C16_LastWriteWins ==
  [][\A c \in CallIds :
       (calls[c].pc = "de_write" /\ calls'[c].pc = "done")
         => /\ calls'[c].result = (IF OwnPatch(calls[c]).ok THEN "ok" ELSE "error")
            /\ OwnPatch(calls[c]).ok => files'[calls[c].path] = FileOf(OwnPatch(calls[c]).updated)]_vars

\* C16 witness: two diff-edit calls on one path read the same content, both returned
\* success, their edits differ, and the file holds the result of the one alone
C16_Witness ==
  \E c, d \in CallIds :
    /\ c # d /\ Done(c, "diffedit") /\ Done(d, "diffedit")
    /\ calls[c].path = calls[d].path
    /\ calls[c].result = "ok" /\ calls[d].result = "ok"
    /\ calls[c].fileContent = calls[d].fileContent
    /\ OwnPatch(calls[c]).updated # calls[c].fileContent
    /\ OwnPatch(calls[c]).updated # OwnPatch(calls[d]).updated
    /\ files[calls[d].path] = FileOf(OwnPatch(calls[d]).updated)

----------------------------------------------------------------------------
(* Properties of the bearer-token middleware (SpecAuth)                    *)

BearerScheme == <<"B", "e", "a", "r", "e", "r">>

\* the header value is exactly "Bearer <t>": the scheme, one blank, t
IsBearerOf(req, t) == req.hasHeader /\ req.header = BearerScheme \o <<" ">> \o t

\* the header value is "Bearer <t>" for some non-empty t without blanks
IsBearerHeader(req) ==
  /\ req.hasHeader
  /\ StartsWith(req.header, BearerScheme \o <<" ">>)
  /\ Len(req.header) > Len(BearerScheme) + 1
  /\ \A i \in (Len(BearerScheme) + 2)..Len(req.header) : ~IsSpace(req.header[i])

\* C19 as stated: with authentication enabled a request reaches a route only if its
\* Authorization header is "Bearer <t>" with t the configured token; a missing or
\* non-Bearer header is answered 401 and a wrong token 403, both without a route
\* handler; with authentication disabled every request passes.
C19_Original ==
  request.stage = "answered" =>
    IF config.enableAuth
    THEN /\ request.handled => IsBearerOf(request, config.authToken)
         /\ ~IsBearerHeader(request) => (request.status = Unauthorized /\ ~request.handled)
         /\ (IsBearerHeader(request) /\ ~IsBearerOf(request, config.authToken))
              => (request.status = Forbidden /\ ~request.handled)
    ELSE request.handled

RECURSIVE WordsOf(_)
\* the maximal runs of non-blank characters of s, in order
WordsOf(s) ==
  LET b == SkipSpace(s, 1)
      e == FirstSpace(s, b)
  IN IF b > Len(s) THEN <<>> ELSE <<SubSeq(s, b, e - 1)>> \o WordsOf(SubSeq(s, e, Len(s)))

\* the first word of the header is "bearer" in any letter case and a second word follows
HasBearerWords(req) ==
  LET words == WordsOf(AuthHeaderOf(req))
  IN Len(words) >= 2 /\ toLowerCase(words[1]) = toLowerCase(BearerScheme)

\* C19 amended: with authentication enabled a request reaches a route exactly when the
\* first word of its Authorization header is "Bearer" in any letter case and the second
\* word is the configured token, whatever the blanks between them and whatever follows
\* the second word; a header that is missing, of another scheme or without a second word
\* is answered 401, a second word that is not the token 403, both without a route
\* handler; with authentication disabled every request passes.
C19_BearerGate ==
  request.stage = "answered" =>
    IF config.enableAuth
    THEN LET words == WordsOf(AuthHeaderOf(request)) IN
         /\ request.handled <=> (HasBearerWords(request) /\ words[2] = config.authToken)
         /\ ~HasBearerWords(request) => request.status = Unauthorized
         /\ (HasBearerWords(request) /\ words[2] # config.authToken)
              => request.status = Forbidden
    ELSE request.handled

\* C19 witness: authentication is enabled and a request went through with a header that
\* is not the plain "Bearer <token>"
C19_Witness ==
  /\ request.stage = "answered" /\ config.enableAuth
  /\ request.handled /\ request.route = "/mcp"
  /\ ~IsBearerOf(request, config.authToken)

----------------------------------------------------------------------------
(* Context-only hunks and repeated search blocks (SpecApply)               *)

\* a diff with at least one hunk in which no hunk line is a removed or an added line
ContextOnlyDiff(lines) ==
  LET heads == HunkHeads(lines) IN
  /\ Len(heads) >= 1
  /\ \A k \in 1..Len(heads) :
       LET body == HunkBody(lines, heads, k) IN
       /\ \E j \in 1..Len(body) : Len(body[j]) > 0 /\ body[j][1] = " "
       /\ \A j \in 1..Len(body) : Len(body[j]) > 0 => body[j][1] \notin {"-", "+"}

\* C21 as stated: a diff all of whose hunks contain only Context lines is a no-op:
\* whenever each hunk's search block is found, the updated content is identical to the
\* original content, for every original content.
C21_Original ==
  LET lines == InputLines IN
  (result.ok /\ ContextOnlyDiff(lines)) => result.updated = originalContent

\* C21 amended: whenever each search block of a context-only diff is found, every hunk
\* replaces its search block by an equal replace block and the updated content is the
\* original content with every CR LF pair turned into LF.
C21_ContextOnlyIsNoOp ==
  LET lines == InputLines IN
  (result.ok /\ ContextOnlyDiff(lines)) =>
    /\ \A k \in 1..Len(result.hunks) : result.hunks[k].replaceBlock = result.hunks[k].searchBlock
    /\ result.updated = NormalizeNewlines(originalContent)

\* C21 witness: two context-only hunks were applied, the first one found away from
\* offset 0
C21_Witness ==
  /\ result.ok /\ ContextOnlyDiff(InputLines)
  /\ Len(result.hunks) = 2 /\ result.hunks[1].idx > 0
  /\ Len(result.hunks[1].searchBlock) > 0

\* C22: when a hunk's search block occurs more than once in the working buffer, exactly
\* one occurrence, the leftmost one, is replaced and every other occurrence that lies
\* after it is found again, shifted by the change of length; a hunk with an empty search
\* block is located at offset 0 and its replace block is put in front of the buffer.
C22_LeftmostOccurrence ==
  result.ok =>
    LET start == NormalizeNewlines(originalContent) IN
    /\ result.updated = WorkingAfter(start, result.hunks, Len(result.hunks))
    /\ \A k \in 1..Len(result.hunks) :
         LET h == result.hunks[k]
             buf == WorkingAfter(start, result.hunks, k - 1)
             after == WorkingAfter(start, result.hunks, k)
             occ == Occurrences(buf, h.searchBlock)
             shift == Len(h.replaceBlock) - Len(h.searchBlock)
         IN /\ h.idx \in occ
            /\ \A i \in occ : h.idx <= i
            /\ SubSeq(after, 1, h.idx) = SubSeq(buf, 1, h.idx)
            /\ SubSeq(after, h.idx + 1, h.idx + Len(h.replaceBlock)) = h.replaceBlock
            /\ Len(after) = Len(buf) + shift
            /\ \A i \in occ : (i # h.idx /\ i >= h.idx + Len(h.searchBlock))
                 => MatchAt(after, h.searchBlock, i + shift)
            /\ h.searchBlock = <<>> => (h.idx = 0 /\ after = h.replaceBlock \o buf)

\* C22 witness: the first hunk's search block occurs twice in the content and is replaced
\* by a different block, the second hunk has an empty search block and meets a non-empty
\* buffer
C22_Witness ==
  /\ result.ok /\ Len(result.hunks) = 2
  /\ Cardinality(Occurrences(NormalizeNewlines(originalContent), result.hunks[1].searchBlock)) = 2
  /\ Len(result.hunks[1].searchBlock) > 0
  /\ result.hunks[1].replaceBlock # result.hunks[1].searchBlock
  /\ result.hunks[2].searchBlock = <<>> /\ Len(result.hunks[2].replaceBlock) > 0
  /\ Len(result.updated) > Len(originalContent)

----------------------------------------------------------------------------
(* The rollback store when calls interleave (Spec)                         *)

\* C23: in every diff-edit call that writes, the content that call stored in the rollback
\* entry (the read inside saveRollback) equals the content the patch was computed from
\* (the handler's own read), whatever other calls on the path do in between.
C23_SnapshotIsPatchBase ==
  \A c \in CallIds :
    (Done(c, "diffedit") /\ calls[c].wrote) => calls[c].snap = calls[c].fileContent

\* C24: restoreRollback removes from the store only the entry whose content it wrote back
\* to the file: when the slot holds another entry by the time of the delete (a snapshot
\* saved for the path by a concurrent edit while the restore awaited its write), that
\* entry is still in the store after the restore returns.
C24_RestoreRemovesOwnEntryOnly ==
  [][\A c \in CallIds :
       (/\ calls[c].pc = "rs_delete" /\ calls'[c].pc = "done"
        /\ rollbackStore[calls[c].path].has
        /\ rollbackStore[calls[c].path] # calls[c].preEntry)
         => rollbackStore'[calls[c].path] = rollbackStore[calls[c].path]]_vars

\* C25: a saved snapshot is consumed at most once: of two overlapping restoreRollback
\* calls on the same path with a single saved entry, at most one reports success and
\* writes the file.
C25_SnapshotConsumedOnce ==
  \A c, d \in CallIds :
    (/\ c # d /\ Done(c, "rollback") /\ Done(d, "rollback")
     /\ calls[c].path = calls[d].path
     /\ calls[c].preEntry = calls[d].preEntry)
      => ~(calls[c].result = "ok" /\ calls[d].result = "ok")

\* a rollback-edit call arrives in slot c
RestoreArrives(c) == calls[c].pc = "idle" /\ calls'[c].tool = "rollback"

\* the call in slot c is answered with a failure in the same step
FailsAtOnce(c, errs) ==
  calls'[c].pc = "done" /\ calls'[c].result = "error" /\ calls'[c].err \in errs

\* C26: restoreRollback on a path that has a saved entry but whose file no longer exists
\* or is a folder returns failure, writes nothing and leaves the entry in the store
\* unchanged; on a path with no entry it returns failure and changes neither any file
\* nor the store.
C26_RestoreFailsWithoutEffect ==
  [][\A c \in CallIds : RestoreArrives(c) =>
       LET p == calls'[c].path
           hasEntry == p \in VaultPaths /\ rollbackStore[p].has
       IN /\ (hasEntry /\ ~IsFile(files, p))
               => (FailsAtOnce(c, {"nofile"}) /\ files' = files /\ rollbackStore' = rollbackStore)
          /\ ~hasEntry
               => (FailsAtOnce(c, {"norollback", "notmd"}) /\ files' = files
                   /\ rollbackStore' = rollbackStore)]_vars

\* C26 witness: a rollback-edit call was refused because a folder stands where the file
\* of its saved entry was, and the entry is still in the store
C26_Witness ==
  \E c \in CallIds :
    /\ Done(c, "rollback") /\ calls[c].result = "error" /\ calls[c].err = "nofile"
    /\ calls[c].preEntry.has /\ calls[c].preFile = Folder
    /\ rollbackStore[calls[c].path] = calls[c].preEntry
    /\ files[calls[c].path] = Folder

----------------------------------------------------------------------------
(* Properties of the ServerManager (SpecLifecycle, SpecServer)             *)

\* a stop() in progress, entered by call o, sets the references to null
NullsReferences(o) == mgrOps[o].pc = "cl_refs" /\ mgrOps'[o].pc = "stop_finally"

\* the servers made by a start() that began after call o entered its stop()
MadeAfterStopOf(o) == {g \in ServerIds : servers[g].startAt > mgrOps[o].stopAt}

\* a stop() in progress leaves alone what a later start() made: the manager still holds
\* those objects and they are in the state they were in
LaterStartUntouched ==
  \A o \in MgrOpIds : NullsReferences(o) =>
    \A g \in MadeAfterStopOf(o) :
      /\ servers'[g] = servers[g]
      /\ manager.httpServer = g => manager'.httpServer = g
      /\ manager.mcpServer = g => manager'.mcpServer = g

\* start() (on its own or in restart()) has resolved and no stop() was entered by
\* another call since it began
StartResolvedAlone(o) ==
  /\ mgrOps[o].pc = "done" /\ mgrOps[o].kind \in {"start", "restart"}
  /\ mgrOps[o].outcome = "ok" /\ ~mgrOps[o].stopSince

HoldsListeningServer ==
  /\ manager.httpServer # 0 /\ servers[manager.httpServer].state = "listening"
  /\ manager.mcpServer # 0

\* C27: for every interleaving of start(), stop() and restart() calls, a stop() already
\* in progress never tears down or nulls the HTTP/MCP server objects created by a start()
\* that began after it, and when start() resolves without a stop() invoked after it the
\* manager holds a non-null listening HTTP server and MCP server.
C27_StopIsSafe ==
  /\ [][LaterStartUntouched]_vars
  /\ [](\A o \in MgrOpIds : StartResolvedAlone(o) => HoldsListeningServer)

\* express hands the request to the chain and the answer is made
HandlesRequest == http.stage = "received" /\ http'.stage = "answered"

\* the /mcp request names a registered StreamableHTTP transport or is a session-less
\* POST whose method is initialize
MayUseMcp == 
  \/ (http.sid \in SessionIds /\ mcpTransports[http.sid] = "streamable")
  \/ (http.sid = 0 /\ http.method = "POST" /\ http.init)

\* the request gets past bearerAuth and reaches its route handler
PassesAuth == bearerAuth(getToken(config), http) = 0

\* the request also gets past the isShuttingDown test of its route handler
ReachesRouting == PassesAuth /\ ~manager.isShuttingDown

\* no session of one protocol is served on the route of the other
ProtocolsApart ==
  /\ (http.route = "/mcp" /\ http.sid \in SessionIds /\ mcpTransports[http.sid] = "sse")
       => http'.served = "none"
  /\ (http.route = "/messages" /\ http.sid \in SessionIds
        /\ mcpTransports[http.sid] = "streamable") => http'.served = "none"

\* a session id leaves the map for good (its connection closed, or clear())
SessionsLeaveForGood ==
  \A s \in SessionIds :
    /\ (Registered(mcpTransports, s) /\ ~Registered(mcpTransports', s))
         => mcpTransports'[s] = "closed"
    /\ mcpTransports[s] = "closed" => mcpTransports'[s] = "closed"

\* a stop() call has resolved
StopResolvedOk(o) == mgrOps[o].pc = "done" /\ mgrOps[o].kind = "stop"

MapIsEmpty == \A s \in SessionIds : ~Registered(mcpTransports, s)

AnswerAsStarted == RouteAnswer(manager, mcpTransports, servers[http.server].cfg, http)

\* C29: a configuration passed to updateConfig takes effect only after the next restart:
\* every request handled between updateConfig and the restart is treated according to
\* the configuration in force when the server was started, the authentication flag and
\* the bearer token included.
C29_ConfigAppliesAtRestart ==
  [][HandlesRequest =>
       /\ http'.status = AnswerAsStarted.status
       /\ http'.served = AnswerAsStarted.served]_vars

----------------------------------------------------------------------------
(* Properties of the fuzzy-anchor variant (SpecFuzzy)                      *)

\* the anchors are those of the claim: one for a text of at most 32 characters, three of
\* 32 characters each for a longer one, each found in the text at its offset
AnchorsAsStated(text, anchors) ==
  IF Len(text) <= AnchorLen
  THEN anchors = <<[anchor |-> text, offset |-> 0, label |-> "head"]>>
  ELSE /\ Len(anchors) = 3
       /\ <<anchors[1].label, anchors[2].label, anchors[3].label>> = <<"head", "mid", "tail">>
       /\ \A k \in 1..3 :
            /\ Len(anchors[k].anchor) = AnchorLen
            /\ anchors[k].offset >= 0
            /\ SubSeq(text, anchors[k].offset + 1, anchors[k].offset + AnchorLen)
                 = anchors[k].anchor
       /\ anchors[1].offset = 0

\* the anchor in use is the first one, in the order of the list, that match() found
FirstMatchWins ==
  LET n == Len(fuzzy.results) IN
  /\ n >= 1 /\ fuzzy.results[n] # -1
  /\ \A j \in 1..(n - 1) : fuzzy.results[j] = -1
  /\ fuzzy.best = [idx |-> fuzzy.results[n], anchor |-> fuzzy.anchors[n].anchor,
                   offset |-> fuzzy.anchors[n].offset, label |-> fuzzy.anchors[n].label]

\* C30: getAnchors(text) returns, for text of length at most 32, exactly one anchor
\* (label head, offset 0, anchor equal to text), and for longer text exactly three
\* anchors in the order head, mid, tail, each 32 characters long and found in the text at
\* its offset; the handler uses the first anchor in that order that matches, and the
\* block start it derives satisfies 0 <= blockStart <= max(0, fileLength - originalLength).
C30_AnchorsAndBlockStart ==
  /\ fuzzy.stage \in {"loop", "matched", "located", "nomatch"}
       => AnchorsAsStated(fuzzy.original, fuzzy.anchors)
  /\ fuzzy.stage \in {"matched", "located"} => FirstMatchWins
  /\ fuzzy.stage = "nomatch" => \A j \in 1..Len(fuzzy.results) : fuzzy.results[j] = -1
  /\ fuzzy.stage = "located"
       => /\ 0 <= fuzzy.blockStart
          /\ fuzzy.blockStart <= Max(0, Len(fuzzy.fileContent) - Len(fuzzy.original))

\* C30 witness: an original of more than 32 characters whose head anchor was not found
\* and whose mid anchor was found before its own offset, so that the block start is
\* clamped to 0
C30_Witness ==
  /\ fuzzy.stage = "located" /\ Len(fuzzy.original) > AnchorLen
  /\ fuzzy.best.label = "mid" /\ fuzzy.best.idx < fuzzy.best.offset
  /\ fuzzy.blockStart = 0

====
